--------------------------- MODULE Desktop_proofs ----------------------------
(***************************************************************************)
(* Theorems about `system`, `clipboard` and `media`, for every host,       *)
(* player, request and fault: for each the inductive invariant, a lemma    *)
(* per action, and the theorem. The lemmas about numbers and sequences are *)
(* those of Speech_proofs.                                                 *)
(***************************************************************************)
EXTENDS Speech_proofs, Desktop, Media

-----------------------------------------------------------------------------
(* Desktop: settings are what the replies say                                *)

DeskSteps ==
  {"get-volume", "get-sink-volume", "get-sink-mute", "set-volume", "set-mute", "brightness",
   "max_brightness", "write brightness", "brightnessctl", "percentage", "state", "time_to_empty",
   "time_to_full", "profile", "profiles", "set_profile", "ScreenSaver.Lock", "loginctl"}

\* What a step sets, and what it reads.
Sets(step) ==
  CASE step = "set-volume" -> {"volume"}
    [] step = "set-mute" -> {"muted"}
    [] step \in {"write brightness", "brightnessctl"} -> {"raw"}
    [] step = "set_profile" -> {"profile"}
    [] step \in {"ScreenSaver.Lock", "loginctl"} -> {"locked"}
    [] OTHER -> {}
Reads(step) ==
  CASE step = "get-volume" -> {"volume", "muted"}
    [] step = "get-sink-volume" -> {"volume"}
    [] step = "get-sink-mute" -> {"muted"}
    [] step = "brightness" -> {"raw"}
    [] step = "profile" -> {"known"}
    [] step = "percentage" -> {"charge"}
    [] step = "state" -> {"battery"}
    [] OTHER -> {}

\* The settings a request may change.
Settings == {"volume", "muted", "raw", "profile", "locked", "board"}

\* The last change of the profile that is told is the daemon's profile.
LastHeard(d) ==
  /\ IsSequence(d.coming)
  /\ IF d.coming = <<>> THEN d.known = d.profile ELSE d.coming[Len(d.coming)] = d.profile
IsDevice(d) == d = [f \in DeviceFields |-> d[f]] /\ d.raw \in Nat /\ d.muted \in BOOLEAN
               /\ d.board.size \in Nat /\ LastHeard(d)

\* What is left to do of a request for f: it is set once, before it is read.
Orderly(todo, f) ==
  /\ \A i, j \in DOMAIN todo : f \in Sets(todo[i]) /\ f \in Sets(todo[j]) => i = j
  /\ \A i, j \in DOMAIN todo : f \in Sets(todo[i]) /\ f \in Reads(todo[j]) => i < j
  /\ (\E i \in DOMAIN todo : f \in Sets(todo[i])) => \E j \in DOMAIN todo : f \in Reads(todo[j])

\* The settings whose new value the reply tells, and that value.
Reported == {"sys_volume_set", "sys_volume_mute", "sys_brightness_set"}
Wanted(r, before) ==
  CASE r.action = "sys_volume_mute" -> IF r.arg = "toggle" THEN ~before.muted ELSE r.arg = "on"
    [] r.action = "sys_brightness_set" ->
         IF Panel.writable THEN TargetRaw(r.arg) ELSE (Panel.max * r.arg) \div 100
    [] OTHER -> r.arg

\* What requests answered with a timeout so far may bring a setting to.
Late(action) == TimedOut(deskReplies, Len(deskReplies) + 1, action)
LateBrings(action) == BroughtLate(deskReplies, Len(deskReplies) + 1, action)

\* A request that was not disturbed has its setting where it was, then where
\* it is wanted, and then has read it; or a command that was given up before
\* has brought it elsewhere. d are the devices.
InPlace(w) == {Wanted(w.r, w.before)} \cup LateBrings(w.r.action)
OnCourse(w, d, f) ==
  /\ Orderly(w.todo, f)
  /\ w.alone => d[f] \in IF \E i \in DOMAIN w.todo : f \in Sets(w.todo[i])
                         THEN {w.before[f]} \cup LateBrings(w.r.action) ELSE InPlace(w)
  /\ \/ \E j \in DOMAIN w.todo : f \in Reads(w.todo[j])
     \/ f \in DOMAIN w.seen /\ (w.alone => w.seen[f] \in InPlace(w))

\* The profile a request may show: one that was to be shown when it began, or
\* the one it sets. It has read one of them, or has yet to read.
ProfileActions == {"sys_power_profile", "sys_power_profile_set"}
ToShow(r, before) == Showable(before) \cup (IF r.action = "sys_power_profile_set" THEN {r.arg} ELSE {})
ProfileCourse(w, d) ==
  /\ w.alone => /\ d.known \in ToShow(w.r, w.before)
                /\ \A i \in DOMAIN d.coming : d.coming[i] \in ToShow(w.r, w.before)
  /\ \/ \E j \in DOMAIN w.todo : w.todo[j] = "profile"
     \/ "known" \in DOMAIN w.seen /\ (w.alone => w.seen["known"] \in ToShow(w.r, w.before))

Allowed(step, r) ==
  /\ Sets(step) \subseteq {SettingOf(r.action)}
  /\ step = "brightnessctl" => ~Panel.writable

SysWorkOK(w, d) ==
  /\ w = [r |-> w.r, todo |-> w.todo, seen |-> w.seen, before |-> w.before, alone |-> w.alone]
  /\ w.r \in SysRequests /\ ValidArgument(w.r) /\ Supports(w.r.action)
  /\ w.todo \in Seq(DeskSteps) /\ w.todo # <<>> /\ IsDevice(w.before) /\ w.alone \in BOOLEAN
  /\ \A i \in DOMAIN w.todo : Allowed(w.todo[i], w.r)
  /\ w.r.action \in Reported => OnCourse(w, d, SettingOf(w.r.action))
  /\ w.r.action \in ProfileActions => ProfileCourse(w, d)

\* One tool at most has had the text, and has put it there or has it from there.
ClipWorkOK(w) ==
  /\ w = [r |-> w.r, tools |-> w.tools, at |-> w.at, fed |-> w.fed, out |-> w.out, alone |-> w.alone]
  /\ w.r \in ClipRequests /\ w.r.action \in {"clipboard_read", "clipboard_write"}
  /\ w.at \in {"try", "running", "ended"} /\ w.alone \in BOOLEAN /\ w.out.size \in Nat
  /\ IF w.at = "try" THEN w.fed = {} ELSE \E tool \in w.fed : w.fed = {tool}
  /\ w.at = "ended" /\ w.alone =>
       device.board = IF w.r.action = "clipboard_write" THEN w.r.text ELSE w.out

\* A command given up is that of a request answered with a timeout; it does not
\* set a panel that the plugin writes itself.
CommandOK(c, replies) ==
  /\ c.step \in Setters
  /\ c.by \in DOMAIN replies /\ replies[c.by].reply = DeskGivenUp /\ replies[c.by].r.arg = c.arg
  /\ Sets(c.step) = {SettingOf(replies[c.by].r.action)}
  /\ "raw" \in Sets(c.step) => c.arg \in 0..100 /\ desktop.panel # {} /\ ~Panel.writable
GivenUpKnown == \A c \in givenUp : CommandOK(c, deskReplies)

\* What a reply says, when these values were asked for by requests before it
\* that were answered with a timeout; what was asked for of the panel is valid.
ReplyTold(m, late) ==
  /\ m.reply = DeskGivenUp /\ m.r.action = "sys_brightness_set" => m.r.arg \in 0..100
  /\ m.reply.ok =>
      /\ m.alone =>
           CASE m.r.action = "sys_volume_set" -> m.reply.volume \in {m.r.arg} \cup late
             [] m.r.action = "sys_volume_mute" ->
                  late = {} => m.reply.muted = (IF m.r.arg = "toggle" THEN ~m.before.muted ELSE m.r.arg = "on")
             [] m.r.action = "sys_brightness_set" -> \E arg \in {m.r.arg} \cup late : Close(m.reply.percent, arg)
             [] m.r.action = "sys_power_profile" -> m.reply.profile \in Showable(m.before)
             [] m.r.action = "sys_power_profile_set" -> m.reply.profile \in {m.r.arg} \cup Showable(m.before)
             [] OTHER -> TRUE
      /\ CASE m.r.action = "clipboard_write" -> m.alone => m.after.board = m.r.text
           [] m.r.action = "clipboard_read" ->
                /\ m.reply.text.size <= ClipMax /\ m.reply.found = (m.reply.text # EmptyText)
                /\ m.alone => m.reply.text = m.after.board
           [] OTHER -> TRUE
DeskRepliesOK ==
  /\ IsSequence(deskReplies)
  /\ \A i \in DOMAIN deskReplies :
       ReplyTold(deskReplies[i], TimedOut(deskReplies, i, deskReplies[i].r.action))

DesktopInv ==
  /\ desktop \in Desktops /\ IsDevice(device) /\ knobs \in Nat
  /\ sysWork # NoDeskWork => SysWorkOK(sysWork, device)
  /\ clipWork # NoDeskWork => ClipWorkOK(clipWork)
  /\ GivenUpKnown /\ DeskRepliesOK /\ IsSequence(deskReplies)
  /\ PanelStaysLit /\ SettingsStand

\* Two requests for the same setting are of the same kind.
LEMMA OneSetter ==
  ASSUME NEW a, NEW b, SettingOf(a) = SettingOf(b), SettingOf(a) # "nothing"
  PROVE  a = b
BY DEF SettingOf

\* What was answered with a timeout stays so, and a reply adds itself at most.
Lengthens(new, q, n) ==
  n \in Nat /\ DOMAIN q = 1..n /\ DOMAIN new = 1..n + 1 /\ \A k \in 1..n : new[k] = q[k]

LEMMA TimedOutKept ==
  ASSUME NEW q, NEW new, NEW n, Lengthens(new, q, n), NEW i \in 1..n + 1, NEW action
  PROVE  TimedOut(new, i, action) = TimedOut(q, i, action)
<1>1. n \in Nat /\ DOMAIN q = 1..n /\ \A k \in 1..n : new[k] = q[k]
  BY DEF Lengthens
<1>2. DOMAIN new = 1..n + 1
  BY DEF Lengthens
<1>3. \A k : k \in DOMAIN new /\ k < i <=> k \in DOMAIN q /\ k < i
  BY <1>1, <1>2
<1>4. {k \in DOMAIN new : k < i /\ new[k].r.action = action /\ new[k].reply = DeskGivenUp}
      = {k \in DOMAIN q : k < i /\ q[k].r.action = action /\ q[k].reply = DeskGivenUp}
  BY <1>1, <1>3
<1>5. PICK K : K = {k \in DOMAIN q : k < i /\ q[k].r.action = action /\ q[k].reply = DeskGivenUp}
  OBVIOUS
<1>6. \A k \in K : new[k] = q[k]
  BY <1>1, <1>5
<1>7. {new[k].r.arg : k \in K} = {q[k].r.arg : k \in K}
  BY <1>6
<1>8. TimedOut(new, i, action) = {new[k].r.arg : k \in K} /\ TimedOut(q, i, action) = {q[k].r.arg : k \in K}
  BY <1>4, <1>5 DEF TimedOut
<1> QED
  BY <1>7, <1>8

LEMMA TimedOutHas ==
  ASSUME NEW q, NEW j \in DOMAIN q, NEW i, j < i, q[j].reply = DeskGivenUp
  PROVE  q[j].r.arg \in TimedOut(q, i, q[j].r.action)
BY DEF TimedOut

\* The replies stay, and at most one more is given.
RepliesGoOn == deskReplies' = deskReplies \/ \E m : deskReplies' = Append(deskReplies, m)

LEMMA SeenTrue ==
  ASSUME NEW step
  PROVE  DOMAIN Seen(step) = Reads(step) /\ \A f \in Reads(step) : Seen(step)[f] = device[f]
<1>1. CASE step = "get-volume"
  <2>1. Seen(step) = [volume |-> device.volume, muted |-> device.muted]
    BY <1>1 DEF Seen
  <2>2. /\ DOMAIN Seen(step) = {"volume", "muted"}
        /\ Seen(step)["volume"] = device.volume /\ Seen(step)["muted"] = device.muted
    BY <2>1
  <2> QED
    BY <1>1, <2>2 DEF Reads
<1>2. CASE step # "get-volume"
  <2>1. Seen(step) = Sight(step)
    BY <1>2 DEF Seen
  <2>2. DOMAIN Sight(step) = Reads(step)
    BY <1>2 DEF Sight, Reads
  <2>3. \A f \in Reads(step) : Sight(step)[f] = device[f]
    BY <1>2 DEF Sight, Reads
  <2> QED
    BY <2>1, <2>2, <2>3
<1> QED
  BY <1>1, <1>2

LEMMA TargetLit ==
  ASSUME NEW percent \in 0..100, Panel.max \in Nat
  PROVE  TargetRaw(percent) \in Nat /\ TargetRaw(percent) > 0
         /\ (Panel.max * percent) \div 100 \in Nat
<1>1. PICK x : x = Panel.max * percent
  OBVIOUS
<1>2. x \in Nat
  BY <1>1
<1>3. x \div 100 \in Nat
  BY <1>2
<1> QED
  BY <1>1, <1>3 DEF TargetRaw

\* Two fields of a function set.
Twice(d, f, x, h, y) == [d EXCEPT ![f] = x, ![h] = y]

LEMMA TwoSet ==
  ASSUME NEW S, NEW d, d = [g \in S |-> d[g]], NEW f \in S, NEW h \in S, f # h, NEW x, NEW y,
         NEW e, e = Twice(d, f, x, h, y)
  PROVE  /\ e = [g \in S |-> e[g]] /\ e[f] = x /\ e[h] = y
         /\ \A g \in S \ {f, h} : e[g] = d[g]
<1>1. e = [g \in S |-> IF g = h THEN y ELSE IF g = f THEN x ELSE d[g]]
  BY DEF Twice
<1> QED
  BY <1>1

\* A device with one of its settings changed is a device.
Changed(f, x) == [device EXCEPT ![f] = x]

LEMMA FieldSet ==
  ASSUME IsDevice(device), NEW f \in Settings \ {"profile"}, NEW x,
         f = "raw" => x \in Nat, f = "muted" => x \in BOOLEAN, f = "board" => x.size \in Nat
  PROVE  /\ IsDevice(Changed(f, x)) /\ Changed(f, x)[f] = x
         /\ \A g \in DeviceFields \ {f} : Changed(f, x)[g] = device[g]
<1> DEFINE d == device
<1>0. PICK e : e = Changed(f, x)
  OBVIOUS
<1>1. DOMAIN d = DeviceFields /\ f \in DeviceFields /\ f \notin {"profile", "known", "coming"}
  BY DEF IsDevice, Settings, DeviceFields
<1>2. e = [g \in DeviceFields |-> IF g = f THEN x ELSE d[g]]
  <2>1. d = [g \in DeviceFields |-> d[g]]
    BY DEF IsDevice
  <2> QED
    BY <1>0, <1>1, <2>1 DEF Changed
<1>3. e = [g \in DeviceFields |-> e[g]] /\ e[f] = x /\ \A g \in DeviceFields \ {f} : e[g] = d[g]
  BY <1>1, <1>2
<1>4. e["raw"] \in Nat
  BY <1>3 DEF IsDevice, DeviceFields
<1>5. e["muted"] \in BOOLEAN
  BY <1>3 DEF IsDevice, DeviceFields
<1>6. e["board"].size \in Nat
  BY <1>3 DEF IsDevice, DeviceFields
<1>7. e["known"] = d["known"] /\ e["coming"] = d["coming"] /\ e["profile"] = d["profile"]
  BY <1>1, <1>3 DEF DeviceFields
<1>8. LastHeard(e)
  BY <1>7 DEF LastHeard, IsDevice
<1> QED
  BY <1>0, <1>3, <1>4, <1>5, <1>6, <1>8 DEF IsDevice

\* So is one whose profile the daemon changed.
LEMMA ProfileSet ==
  ASSUME IsDevice(device), NEW profile, NEW e, e = DaemonSets(profile)
  PROVE  /\ IsDevice(e) /\ e.profile = profile /\ e.known = device.known
         /\ \A g \in Settings \ {"profile"} : e[g] = device[g]
         /\ e.coming \in {device.coming, Append(device.coming, profile)}
<1>1. PICK d : d = device
  OBVIOUS
<1>2. IsDevice(d) /\ IsSequence(d.coming)
  BY <1>1 DEF IsDevice, LastHeard
<1>3. CASE profile = d.profile
  <2>1. e = d
    BY <1>1, <1>3 DEF DaemonSets
  <2> QED
    BY <1>1, <1>2, <1>3, <2>1
<1>4. CASE profile # d.profile
  <2>1. PICK coming : coming = Append(d.coming, profile)
    OBVIOUS
  <2>2. /\ IsSequence(coming) /\ coming # <<>> /\ coming[Len(coming)] = profile
    <3>1. PICK n \in Nat : n = Len(d.coming)
      BY <1>2, SequenceDomain
    <3>2. IsSequence(coming) /\ Len(coming) = n + 1 /\ coming[n + 1] = profile
      BY <1>2, <2>1, <3>1, SequenceAppend
    <3>3. coming # <<>>
      BY <3>2, EmptySequence
    <3> QED
      BY <3>2, <3>3
  <2>3. e = [d EXCEPT !.profile = profile, !.coming = coming]
    BY <1>1, <1>4, <2>1 DEF DaemonSets
  <2>4. e = [g \in DeviceFields |-> CASE g = "profile" -> profile [] g = "coming" -> coming [] OTHER -> d[g]]
    <3>1. d = [g \in DeviceFields |-> d[g]]
      BY <1>2 DEF IsDevice
    <3>2. PICK F : F = DeviceFields
      OBVIOUS
    <3>3. "profile" \in F /\ "coming" \in F
      BY <3>2 DEF DeviceFields
    <3> QED
      BY <2>3, <3>1, <3>2, <3>3
  <2>5. /\ e["profile"] = profile /\ e["coming"] = coming
        /\ \A g \in DeviceFields \ {"profile", "coming"} : e[g] = d[g]
    BY <2>4 DEF DeviceFields
  <2>6. e = [g \in DeviceFields |-> e[g]]
    BY <2>4
  <2>7. LastHeard(e)
    BY <2>2, <2>5 DEF LastHeard
  <2>8. /\ e["raw"] = d["raw"] /\ e["muted"] = d["muted"] /\ e["board"] = d["board"]
        /\ e["known"] = d["known"]
    BY <2>5 DEF DeviceFields
  <2>9. IsDevice(e)
    BY <1>2, <2>6, <2>7, <2>8 DEF IsDevice
  <2>10. \A g \in Settings \ {"profile"} : g \in DeviceFields \ {"profile", "coming"}
    BY DEF Settings, DeviceFields
  <2> QED
    BY <1>1, <2>1, <2>5, <2>8, <2>9, <2>10
<1> QED
  BY <1>3, <1>4

\* A step changes what it sets and nothing else; setting the profile tells it.
LEMMA EffectTrue ==
  ASSUME IsDevice(device), NEW step, NEW arg,
         "raw" \in Sets(step) => arg \in 0..100 /\ Panel.max \in Nat
  PROVE  /\ IsDevice(Effect(step, arg))
         /\ \A f \in Settings \ Sets(step) : Effect(step, arg)[f] = device[f]
         /\ Effect(step, arg).known = device.known
         /\ \/ Effect(step, arg).coming = device.coming
            \/ step = "set_profile" /\ Effect(step, arg).coming = Append(device.coming, arg)
<1> DEFINE E == Effect(step, arg)
<1>1. ASSUME NEW f \in Settings \ {"profile"}, NEW x, Sets(step) = {f},
             f = "raw" => x \in Nat, f = "muted" => x \in BOOLEAN, f # "board",
             E = Changed(f, x)
      PROVE  /\ IsDevice(E) /\ \A g \in Settings \ Sets(step) : E[g] = device[g]
             /\ E.known = device.known /\ E.coming = device.coming
  <2>1. PICK e : e = E
    OBVIOUS
  <2>2. IsDevice(e) /\ \A g \in DeviceFields \ {f} : e[g] = device[g]
    BY <1>1, <2>1, FieldSet
  <2>3. "known" \in DeviceFields \ {f} /\ "coming" \in DeviceFields \ {f} /\ Settings \subseteq DeviceFields
    BY DEF Settings, DeviceFields
  <2> QED
    BY <1>1, <2>1, <2>2, <2>3
<1>2. CASE step = "set-volume"
  BY <1>1, <1>2 DEF Effect, Sets, Settings, Changed
<1>3. CASE step = "set-mute"
  <2>1. PICK muted \in BOOLEAN : E = [device EXCEPT !.muted = muted]
    <3>1. device.muted \in BOOLEAN
      BY DEF IsDevice
    <3> QED
      BY <1>3, <3>1, Zenon DEF Effect
  <2> QED
    BY <1>1, <1>3, <2>1 DEF Sets, Settings, Changed
<1>4. CASE step \in {"write brightness", "brightnessctl"}
  <2>1. Sets(step) = {"raw"}
    BY <1>4 DEF Sets
  <2>2. PICK raw \in Nat : E = [device EXCEPT !.raw = raw]
    <3>1. TargetRaw(arg) \in Nat /\ (Panel.max * arg) \div 100 \in Nat
      BY <2>1, TargetLit
    <3> QED
      BY <1>4, <3>1 DEF Effect
  <2> QED
    BY <1>1, <2>1, <2>2 DEF Settings, Changed
<1>5. CASE step = "set_profile"
  <2>1. E = DaemonSets(arg) /\ Sets(step) = {"profile"}
    BY <1>5 DEF Effect, Sets
  <2>2. PICK e : e = E
    OBVIOUS
  <2>3. /\ IsDevice(e) /\ e.known = device.known
        /\ \A g \in Settings \ {"profile"} : e[g] = device[g]
        /\ e.coming \in {device.coming, Append(device.coming, arg)}
    BY <2>1, <2>2, ProfileSet
  <2> QED
    BY <1>5, <2>1, <2>2, <2>3
<1>6. CASE step \in {"ScreenSaver.Lock", "loginctl"}
  <2>1. E = Changed("locked", TRUE) /\ Sets(step) = {"locked"}
    BY <1>6 DEF Effect, Sets, Changed
  <2> QED
    BY <1>1, <2>1 DEF Settings
<1>7. CASE step \notin {"set-volume", "set-mute", "write brightness", "brightnessctl",
                        "set_profile", "ScreenSaver.Lock", "loginctl"}
  <2>1. E = device
    BY <1>7 DEF Effect
  <2> QED
    BY <2>1
<1> QED
  BY <1>2, <1>3, <1>4, <1>5, <1>6, <1>7

LEMMA PanelKnown ==
  ASSUME desktop \in Desktops, desktop.panel # {}
  PROVE  /\ desktop.panel = {Panel} /\ Panel.max \in Nat /\ Panel.max > 0
         /\ Panel.writable \in BOOLEAN
<1>1. Panel \in desktop.panel
  BY DEF Panel
<1>2. /\ \A p, q \in desktop.panel : p = q
      /\ \A p \in desktop.panel : p.max \in Nat /\ p.max > 0 /\ p.writable \in BOOLEAN
  BY DesktopAssumption
<1> QED
  BY <1>1, <1>2

LEMMA DivisionBounds ==
  ASSUME NEW a \in Nat, NEW b \in Nat, b > 0
  PROVE  b * (a \div b) <= a /\ a < b * (a \div b) + b
<1>1. b * (a \div b) <= a
  OBVIOUS
<1>2. a < b * (a \div b) + b
  OBVIOUS
<1> QED
  BY <1>1, <1>2

\* The percentage read back is the one that was set, within one raw step.
LEMMA PercentClose ==
  ASSUME Panel.max \in Nat, Panel.max > 0, NEW percent \in 0..100,
         NEW raw, raw \in {TargetRaw(percent), (Panel.max * percent) \div 100}
  PROVE  /\ 2 * (CalcPercent(raw) * Panel.max - percent * Panel.max) <= 200 + Panel.max
         /\ -2 * (CalcPercent(raw) * Panel.max - percent * Panel.max) <= 200 + Panel.max
<1>1. PICK max \in Nat : max = Panel.max /\ max > 0
  OBVIOUS
<1>2. PICK x \in Nat : x = max * percent
  OBVIOUS
<1>3. PICK q \in Nat : q = x \div 100
  OBVIOUS
<1>4. 100 * q <= x /\ x < 100 * q + 100
  BY <1>3
<1>5. raw = q \/ (q = 0 /\ raw = 1)
  BY <1>1, <1>2, <1>3 DEF TargetRaw
<1>6. raw \in Nat /\ 200 * raw <= 2 * x + 200 /\ 200 * raw >= 2 * x - 200
  BY <1>4, <1>5
<1>7. PICK p \in Nat : p = (200 * raw + max) \div (2 * max)
  BY <1>1, <1>6
<1>8. PICK y \in Nat : y = p * max
  OBVIOUS
<1>9. 2 * y <= 200 * raw + max /\ 200 * raw + max < 2 * y + 2 * max
  <2>2. PICK a \in Nat : a = 200 * raw + max
    BY <1>6
  <2>3. PICK b \in Nat : b = 2 * max /\ b > 0
    BY <1>1
  <2>4. b * p <= a /\ a < b * p + b
    <3>1. p = a \div b
      BY <1>7, <2>2, <2>3
    <3> QED
      BY <2>2, <2>3, <3>1, DivisionBounds
  <2>5. b * p = 2 * y
    BY <1>8, <2>3
  <2> QED
    BY <2>2, <2>3, <2>4, <2>5
<1>10. CASE p <= 255
  <2>1. CalcPercent(raw) = p
    BY <1>1, <1>7, <1>10 DEF CalcPercent
  <2>2. percent * Panel.max = x /\ CalcPercent(raw) * Panel.max = y
    BY <1>1, <1>2, <1>8, <2>1
  <2> QED
    BY <1>1, <1>6, <1>9, <2>2
<1>11. CASE p > 255
  <2>1. CalcPercent(raw) = 255
    BY <1>1, <1>7, <1>11 DEF CalcPercent
  <2>2. PICK z \in Nat : z = 255 * max
    OBVIOUS
  <2>3. z <= y /\ x <= z
    BY <1>2, <1>8, <1>11, <2>2
  <2>4. percent * Panel.max = x /\ CalcPercent(raw) * Panel.max = z
    BY <1>1, <1>2, <2>1, <2>2
  <2> QED
    BY <1>1, <1>6, <1>9, <2>3, <2>4
<1> QED
  BY <1>10, <1>11

\* A request's steps are those of its setting, set before it is read.
GoodSteps(todo, r) ==
  /\ todo \in Seq(DeskSteps) /\ todo # <<>>
  /\ \A i \in DOMAIN todo : Allowed(todo[i], r)
  /\ r.action \in Reported =>
       /\ Orderly(todo, SettingOf(r.action))
       /\ \E i \in DOMAIN todo : SettingOf(r.action) \in Sets(todo[i])
  /\ r.action \in ProfileActions => \E i \in DOMAIN todo : todo[i] = "profile"

LEMMA OneStep ==
  ASSUME NEW T, NEW x \in T, NEW q, q = <<x>>
  PROVE  q \in Seq(T) /\ q # <<>> /\ DOMAIN q = {1} /\ q[1] = x
OBVIOUS

LEMMA TwoSteps ==
  ASSUME NEW T, NEW x \in T, NEW y \in T, NEW q, q = <<x, y>>
  PROVE  q \in Seq(T) /\ q # <<>> /\ DOMAIN q = {1, 2} /\ q[1] = x /\ q[2] = y
OBVIOUS

LEMMA FourSteps ==
  ASSUME NEW T, NEW x \in T, NEW y \in T, NEW z \in T, NEW u \in T, NEW q, q = <<x, y, z, u>>
  PROVE  /\ q \in Seq(T) /\ q # <<>> /\ DOMAIN q = {1, 2, 3, 4}
         /\ q[1] = x /\ q[2] = y /\ q[3] = z /\ q[4] = u
OBVIOUS

\* A step other than brightnessctl sets and reads this.
Does(step, set, read) ==
  step \in DeskSteps /\ step # "brightnessctl" /\ Sets(step) = set /\ Reads(step) = read

LEMMA StepTable ==
  /\ Does("get-volume", {}, {"volume", "muted"})
  /\ Does("get-sink-volume", {}, {"volume"})
  /\ Does("get-sink-mute", {}, {"muted"})
  /\ Does("set-volume", {"volume"}, {})
  /\ Does("set-mute", {"muted"}, {})
  /\ Does("brightness", {}, {"raw"})
  /\ Does("max_brightness", {}, {})
  /\ Does("write brightness", {"raw"}, {})
  /\ Does("percentage", {}, {"charge"})
  /\ Does("state", {}, {"battery"})
  /\ Does("time_to_empty", {}, {})
  /\ Does("time_to_full", {}, {})
  /\ Does("profile", {}, {"known"})
  /\ Does("profiles", {}, {})
  /\ Does("set_profile", {"profile"}, {})
  /\ Does("ScreenSaver.Lock", {"locked"}, {})
BY DEF Does, DeskSteps, Sets, Reads

\* Some steps of which the last sets f, some that read it, and both together.
SetsIt(set, f) ==
  \E k \in Nat :
    /\ set \in Seq(DeskSteps) /\ DOMAIN set = 1..k /\ k > 0 /\ Sets(set[k]) = {f}
    /\ \A i \in DOMAIN set : /\ i # k => Sets(set[i]) = {}
                             /\ Reads(set[i]) = {} /\ set[i] # "brightnessctl"
ReadsIt(read, f) ==
  /\ read \in Seq(DeskSteps) /\ \E l \in DOMAIN read : f \in Reads(read[l])
  /\ \A i \in DOMAIN read : Sets(read[i]) = {} /\ read[i] # "brightnessctl"
SetsAndReads(todo, f) ==
  /\ todo \in Seq(DeskSteps) /\ todo # <<>> /\ Orderly(todo, f)
  /\ \E i \in DOMAIN todo : f \in Sets(todo[i])
  /\ \A i \in DOMAIN todo : Sets(todo[i]) \subseteq {f} /\ todo[i] # "brightnessctl"

LEMMA SetThenRead ==
  ASSUME NEW set, NEW read, NEW f, SetsIt(set, f), ReadsIt(read, f)
  PROVE  SetsAndReads(set \o read, f)
<1>1. PICK s \in Nat : /\ set \in Seq(DeskSteps) /\ DOMAIN set = 1..s /\ s > 0 /\ Sets(set[s]) = {f}
                       /\ \A i \in DOMAIN set : /\ i # s => Sets(set[i]) = {}
                                                /\ Reads(set[i]) = {} /\ set[i] # "brightnessctl"
  BY DEF SetsIt
<1>2. /\ read \in Seq(DeskSteps)
      /\ \A i \in DOMAIN read : Sets(read[i]) = {} /\ read[i] # "brightnessctl"
  BY DEF ReadsIt
<1>3. PICK l \in DOMAIN read : f \in Reads(read[l])
  BY DEF ReadsIt
<1>4. PICK r \in Nat : r = Len(read) /\ DOMAIN read = 1..r
  BY <1>2
<1>5. PICK todo : todo = set \o read
  OBVIOUS
<1>6. /\ todo \in Seq(DeskSteps) /\ Len(todo) = s + r
      /\ \A i \in 1..s + r : todo[i] = IF i <= s THEN set[i] ELSE read[i - s]
  <2>1. /\ set \o read \in Seq(DeskSteps) /\ Len(set \o read) = Len(set) + Len(read)
        /\ \A i \in 1..Len(set) + Len(read) :
             (set \o read)[i] = IF i <= Len(set) THEN set[i] ELSE read[i - Len(set)]
    BY <1>1, <1>2, Concatenated
  <2>2. Len(set) = s
    BY <1>1
  <2> QED
    BY <1>4, <1>5, <2>1, <2>2
<1>7. DOMAIN todo = 1..s + r
  BY <1>6
<1>8. \A i \in 1..s + r : IF i <= s THEN i \in 1..s ELSE i - s \in 1..r
  OBVIOUS
<1>9. s \in 1..s /\ s \in 1..s + r /\ l + s \in 1..s + r /\ (l + s) - s = l /\ ~(l + s <= s)
  BY <1>1, <1>4
<1>10. todo[s] = set[s] /\ todo[l + s] = read[l]
  BY <1>6, <1>9
<1>11. \A i \in DOMAIN todo : f \in Sets(todo[i]) => i = s
  BY <1>1, <1>2, <1>4, <1>6, <1>7, <1>8
<1>12. \A i \in DOMAIN todo : f \in Reads(todo[i]) => i > s
  BY <1>1, <1>6, <1>7, <1>8
<1>13. todo # <<>>
  BY <1>7, <1>9
<1>14. Orderly(todo, f)
  <2>1. \A i, j \in DOMAIN todo : f \in Sets(todo[i]) /\ f \in Sets(todo[j]) => i = j
    BY <1>11
  <2>2. \A i, j \in DOMAIN todo : f \in Sets(todo[i]) /\ f \in Reads(todo[j]) => i < j
    BY <1>7, <1>9, <1>11, <1>12
  <2>3. \E j \in DOMAIN todo : f \in Reads(todo[j])
    BY <1>3, <1>7, <1>9, <1>10
  <2> QED
    BY <2>1, <2>2, <2>3 DEF Orderly
<1>15. s \in DOMAIN todo /\ f \in Sets(todo[s])
  BY <1>1, <1>7, <1>9, <1>10
<1>16. \A i \in DOMAIN todo : Sets(todo[i]) \subseteq {f} /\ todo[i] # "brightnessctl"
  BY <1>1, <1>2, <1>4, <1>6, <1>7, <1>8
<1> QED
  BY <1>5, <1>6, <1>13, <1>14, <1>15, <1>16 DEF SetsAndReads

LEMMA StepsInOrder ==
  ASSUME NEW r \in SysRequests
  PROVE  GoodSteps(StepsOf(r), r)
<1>1. ReadVolume = <<"get-volume">> \/ ReadVolume = <<"get-sink-volume", "get-sink-mute">>
  BY DEF ReadVolume
<1>2. r.action \in SysActions
  BY DesktopAssumption
<1>3. CASE r.action = "sys_volume"
  <2>1. PICK todo : todo = StepsOf(r) /\ todo = ReadVolume
    BY <1>3 DEF StepsOf
  <2>2. CASE todo = <<"get-volume">>
    <3>1. Does("get-volume", {}, {"volume", "muted"})
      BY StepTable
    <3> QED
      BY <1>3, <2>1, <2>2, <3>1, OneStep DEF Does, GoodSteps, Allowed, Reported, ProfileActions
  <2>3. CASE todo = <<"get-sink-volume", "get-sink-mute">>
    <3>1. /\ Does("get-sink-volume", {}, {"volume"})
          /\ Does("get-sink-mute", {}, {"muted"})
      BY StepTable
    <3> QED
      BY <1>3, <2>1, <2>3, <3>1, TwoSteps DEF Does, GoodSteps, Allowed, Reported, ProfileActions
  <2> QED
    BY <1>1, <2>1, <2>2, <2>3
<1>4. CASE r.action = "sys_volume_set"
  <2>1. PICK set : set = <<"set-volume">>
    OBVIOUS
  <2>2. PICK read : read = ReadVolume
    OBVIOUS
  <2>3. StepsOf(r) = set \o read /\ SettingOf(r.action) = "volume"
    BY <1>4, <2>1, <2>2 DEF StepsOf, Setting, SettingOf
  <2>4. SetsIt(set, "volume")
    <3>1. /\ Does("set-volume", {"volume"}, {})
      BY StepTable
    <3> QED
      BY <2>1, <3>1, OneStep DEF Does, SetsIt
  <2>5. ReadsIt(read, "volume")
    <3>1. CASE read = <<"get-volume">>
      <4>1. Does("get-volume", {}, {"volume", "muted"})
        BY StepTable
      <4> QED
        BY <3>1, <4>1, OneStep DEF Does, ReadsIt
    <3>2. CASE read = <<"get-sink-volume", "get-sink-mute">>
      <4>1. /\ Does("get-sink-volume", {}, {"volume"})
            /\ Does("get-sink-mute", {}, {"muted"})
        BY StepTable
      <4> QED
        BY <3>2, <4>1, TwoSteps DEF Does, ReadsIt
    <3> QED
      BY <1>1, <2>2, <3>1, <3>2
  <2>6. SetsAndReads(set \o read, "volume")
    BY <2>4, <2>5, SetThenRead
  <2> QED
    BY <1>4, <2>3, <2>6 DEF SetsAndReads, GoodSteps, Allowed, ProfileActions
<1>5. CASE r.action = "sys_volume_mute"
  <2>1. PICK set : set = <<"set-mute">>
    OBVIOUS
  <2>2. PICK read : read = ReadVolume
    OBVIOUS
  <2>3. StepsOf(r) = set \o read /\ SettingOf(r.action) = "muted"
    BY <1>5, <2>1, <2>2 DEF StepsOf, Setting, SettingOf
  <2>4. SetsIt(set, "muted")
    <3>1. /\ Does("set-mute", {"muted"}, {})
      BY StepTable
    <3> QED
      BY <2>1, <3>1, OneStep DEF Does, SetsIt
  <2>5. ReadsIt(read, "muted")
    <3>1. CASE read = <<"get-volume">>
      <4>1. Does("get-volume", {}, {"volume", "muted"})
        BY StepTable
      <4> QED
        BY <3>1, <4>1, OneStep DEF Does, ReadsIt
    <3>2. CASE read = <<"get-sink-volume", "get-sink-mute">>
      <4>1. /\ Does("get-sink-volume", {}, {"volume"})
            /\ Does("get-sink-mute", {}, {"muted"})
        BY StepTable
      <4> QED
        BY <3>2, <4>1, TwoSteps DEF Does, ReadsIt
    <3> QED
      BY <1>1, <2>2, <3>1, <3>2
  <2>6. SetsAndReads(set \o read, "muted")
    BY <2>4, <2>5, SetThenRead
  <2> QED
    BY <1>5, <2>3, <2>6 DEF SetsAndReads, GoodSteps, Allowed, ProfileActions
<1>6. CASE r.action = "sys_brightness"
  <2>1. PICK todo : todo = <<"brightness", "max_brightness">>
    OBVIOUS
  <2>2. StepsOf(r) = todo
    BY <1>6, <2>1 DEF StepsOf, ReadBrightness
  <2>3. /\ Does("brightness", {}, {"raw"})
        /\ Does("max_brightness", {}, {})
    BY StepTable
  <2>4. todo \in Seq(DeskSteps) /\ todo # <<>>
    BY <2>1, <2>3, TwoSteps DEF Does
  <2>5. \A i \in DOMAIN todo : Sets(todo[i]) = {} /\ todo[i] # "brightnessctl"
    BY <2>1, <2>3, TwoSteps DEF Does
  <2> QED
    BY <1>6, <2>2, <2>4, <2>5 DEF GoodSteps, Allowed, Reported, ProfileActions
<1>7. CASE r.action = "sys_brightness_set"
  <2>1. PICK set : set = <<"max_brightness", "write brightness">>
    OBVIOUS
  <2>2. PICK read : read = ReadBrightness
    OBVIOUS
  <2>3. StepsOf(r) = set \o read /\ SettingOf(r.action) = "raw"
    BY <1>7, <2>1, <2>2 DEF StepsOf, Setting, SettingOf
  <2>4. SetsIt(set, "raw")
    <3>1. /\ Does("max_brightness", {}, {})
          /\ Does("write brightness", {"raw"}, {})
      BY StepTable
    <3> QED
      <4>1. "max_brightness" \in DeskSteps /\ "write brightness" \in DeskSteps
        BY <3>1 DEF Does
      <4>2. /\ set \in Seq(DeskSteps) /\ DOMAIN set = {1, 2}
            /\ set[1] = "max_brightness" /\ set[2] = "write brightness"
        <5>1. \A x, y \in DeskSteps : set = <<x, y>> => /\ set \in Seq(DeskSteps) /\ DOMAIN set = {1, 2}
                                                      /\ set[1] = x /\ set[2] = y
          BY TwoSteps
        <5> QED
          BY <2>1, <4>1, <5>1
      <4>3. 1..2 = {1, 2}
        OBVIOUS
      <4>4. Sets(set[2]) = {"raw"}
        BY <3>1, <4>2 DEF Does
      <4>5. ASSUME NEW i \in DOMAIN set
            PROVE  /\ i # 2 => Sets(set[i]) = {}
                   /\ Reads(set[i]) = {} /\ set[i] # "brightnessctl"
        <5>1. CASE i = 1
          BY <3>1, <4>2, <5>1 DEF Does
        <5>2. CASE i = 2
          BY <3>1, <4>2, <5>2 DEF Does
        <5> QED
          BY <4>2, <5>1, <5>2
      <4> QED
        <5>1. PICK k \in Nat : k = 2 /\ k > 0
          OBVIOUS
        <5>2. DOMAIN set = 1..k /\ Sets(set[k]) = {"raw"}
          BY <4>2, <4>3, <4>4, <5>1
        <5> QED
          BY <4>2, <4>5, <5>1, <5>2 DEF SetsIt
  <2>5. ReadsIt(read, "raw")
    <3>1. /\ Does("brightness", {}, {"raw"})
          /\ Does("max_brightness", {}, {})
      BY StepTable
    <3> QED
      BY <2>2, <3>1, TwoSteps DEF Does, ReadsIt, ReadBrightness
  <2>6. SetsAndReads(set \o read, "raw")
    BY <2>4, <2>5, SetThenRead
  <2> QED
    BY <1>7, <2>3, <2>6 DEF SetsAndReads, GoodSteps, Allowed, ProfileActions
<1>8. CASE r.action = "sys_battery"
  <2>1. PICK todo : todo = <<"percentage", "state", "time_to_empty", "time_to_full">>
    OBVIOUS
  <2>2. StepsOf(r) = todo
    BY <1>8, <2>1 DEF StepsOf
  <2>3. /\ Does("percentage", {}, {"charge"})
        /\ Does("state", {}, {"battery"})
        /\ Does("time_to_empty", {}, {})
        /\ Does("time_to_full", {}, {})
    BY StepTable
  <2>4. todo \in Seq(DeskSteps) /\ todo # <<>>
    BY <2>1, <2>3, FourSteps DEF Does
  <2>5. \A i \in DOMAIN todo : Sets(todo[i]) = {} /\ todo[i] # "brightnessctl"
    BY <2>1, <2>3, FourSteps, SMTT(30) DEF Does
  <2> QED
    BY <1>8, <2>2, <2>4, <2>5 DEF GoodSteps, Allowed, Reported, ProfileActions
<1>9. CASE r.action = "sys_power_profile"
  <2>1. PICK todo : todo = <<"profile", "profiles">>
    OBVIOUS
  <2>2. StepsOf(r) = todo
    BY <1>9, <2>1 DEF StepsOf, ReadProfile
  <2>3. /\ Does("profile", {}, {"known"})
        /\ Does("profiles", {}, {})
    BY StepTable
  <2>4. todo \in Seq(DeskSteps) /\ todo # <<>> /\ DOMAIN todo = {1, 2} /\ todo[1] = "profile"
    BY <2>1, <2>3, TwoSteps DEF Does
  <2>5. \A i \in DOMAIN todo : Sets(todo[i]) = {} /\ todo[i] # "brightnessctl"
    BY <2>1, <2>3, TwoSteps DEF Does
  <2> QED
    BY <1>9, <2>2, <2>4, <2>5 DEF GoodSteps, Allowed, Reported
<1>10. CASE r.action = "sys_power_profile_set"
  <2>1. PICK set : set = <<"set_profile">>
    OBVIOUS
  <2>2. PICK read : read = <<"profile", "profiles">>
    OBVIOUS
  <2>3. PICK todo : todo = set \o read /\ StepsOf(r) = todo /\ SettingOf(r.action) = "profile"
    BY <1>10, <2>1, <2>2 DEF StepsOf, Setting, SettingOf, ReadProfile
  <2>4. /\ Does("set_profile", {"profile"}, {}) /\ Does("profile", {}, {"known"})
        /\ Does("profiles", {}, {})
    BY StepTable
  <2>5. /\ todo \in Seq(DeskSteps) /\ Len(todo) = 3
        /\ todo[1] = "set_profile" /\ todo[2] = "profile" /\ todo[3] = "profiles"
    <3>1. /\ set \in Seq(DeskSteps) /\ Len(set) = 1 /\ set[1] = "set_profile"
      BY <2>1, <2>4, OneStep DEF Does
    <3>2. /\ read \in Seq(DeskSteps) /\ Len(read) = 2 /\ read[1] = "profile" /\ read[2] = "profiles"
      BY <2>2, <2>4, TwoSteps DEF Does
    <3>3. /\ set \o read \in Seq(DeskSteps) /\ Len(set \o read) = 3
          /\ \A i \in 1..3 : (set \o read)[i] = IF i <= 1 THEN set[i] ELSE read[i - 1]
      BY <3>1, <3>2, Concatenated
    <3> QED
      BY <2>3, <3>1, <3>2, <3>3
  <2>6. DOMAIN todo = {1, 2, 3} /\ todo # <<>>
    <3>1. DOMAIN todo = 1..3
      BY <2>5
    <3>2. 1..3 = {1, 2, 3}
      OBVIOUS
    <3>3. todo # <<>>
      BY <2>5, EmptySequence
    <3> QED
      BY <3>1, <3>2, <3>3
  <2>7. ASSUME NEW i \in DOMAIN todo
        PROVE  Sets(todo[i]) \subseteq {"profile"} /\ todo[i] # "brightnessctl"
    <3>1. CASE i = 1
      BY <2>4, <2>5, <3>1 DEF Does
    <3>2. CASE i = 2
      BY <2>4, <2>5, <3>2 DEF Does
    <3>3. CASE i = 3
      BY <2>4, <2>5, <3>3 DEF Does
    <3> QED
      BY <2>6, <3>1, <3>2, <3>3
  <2> QED
    BY <1>10, <2>3, <2>5, <2>6, <2>7 DEF GoodSteps, Allowed, Reported
<1>11. CASE r.action = "sys_lock"
  <2>1. PICK todo : todo = StepsOf(r) /\ todo = <<"ScreenSaver.Lock">>
    BY <1>11 DEF StepsOf
  <2>2. SettingOf(r.action) = "locked" /\ Does("ScreenSaver.Lock", {"locked"}, {})
    BY <1>11, StepTable DEF SettingOf
  <2> QED
    BY <1>11, <2>1, <2>2, OneStep DEF Does, GoodSteps, Allowed, Reported, ProfileActions
<1> QED
  BY <1>2, <1>3, <1>4, <1>5, <1>6, <1>7, <1>8, <1>9, <1>10, <1>11 DEF SysActions

\* What is left after the first step.
Behind(tail, todo) ==
  /\ tail \in Seq(DeskSteps) /\ DOMAIN tail = 1..Len(todo) - 1 /\ DOMAIN todo = 1..Len(todo)
  /\ Len(todo) \in Nat /\ Len(todo) > 0 /\ Head(todo) = todo[1]
  /\ tail # <<>> <=> Len(todo) # 1
  /\ \A i \in DOMAIN tail : i + 1 \in DOMAIN todo /\ tail[i] = todo[i + 1]
  /\ \A j \in DOMAIN todo : j # 1 => j - 1 \in DOMAIN tail /\ todo[j] = tail[j - 1]

LEMMA TailInOrder ==
  ASSUME NEW todo \in Seq(DeskSteps), todo # <<>>, NEW tail, tail = Tail(todo)
  PROVE  Behind(tail, todo) /\ \A f : Orderly(todo, f) => Orderly(tail, f)
<1>1. /\ tail \in Seq(DeskSteps) /\ Len(tail) = Len(todo) - 1 /\ DOMAIN tail = 1..Len(todo) - 1
      /\ DOMAIN todo = 1..Len(todo) /\ Len(todo) \in Nat /\ Len(todo) > 0 /\ Head(todo) = todo[1]
  OBVIOUS
<1>2. tail # <<>> <=> Len(todo) # 1
  <2>1. ASSUME NEW T, NEW q \in Seq(T)
        PROVE  q = <<>> <=> Len(q) = 0
    OBVIOUS
  <2>2. tail = <<>> <=> Len(tail) = 0
    BY <1>1, <2>1
  <2> QED
    BY <1>1, <2>2
<1>3. \A i \in 1..Len(todo) - 1 : tail[i] = todo[i + 1]
  OBVIOUS
<1>4. \A i \in DOMAIN tail : i + 1 \in DOMAIN todo /\ tail[i] = todo[i + 1]
  BY <1>1, <1>3
<1>5. \A j \in DOMAIN todo : j # 1 => j - 1 \in DOMAIN tail /\ todo[j] = tail[j - 1]
  <2> SUFFICES ASSUME NEW j \in DOMAIN todo, j # 1
               PROVE  j - 1 \in DOMAIN tail /\ todo[j] = tail[j - 1]
    OBVIOUS
  <2>1. j - 1 \in 1..Len(todo) - 1 /\ (j - 1) + 1 = j
    BY <1>1
  <2> QED
    BY <1>1, <1>3, <2>1
<1>6. ASSUME NEW f, Orderly(todo, f)
      PROVE  Orderly(tail, f)
  <2>1. \A i, j \in DOMAIN tail : f \in Sets(tail[i]) /\ f \in Sets(tail[j]) => i = j
    <3> SUFFICES ASSUME NEW i \in DOMAIN tail, NEW j \in DOMAIN tail,
                        f \in Sets(tail[i]), f \in Sets(tail[j])
                 PROVE  i = j
      OBVIOUS
    <3>1. i + 1 = j + 1
      BY <1>4, <1>6 DEF Orderly
    <3> QED
      BY <1>1, <3>1
  <2>2. \A i, j \in DOMAIN tail : f \in Sets(tail[i]) /\ f \in Reads(tail[j]) => i < j
    <3> SUFFICES ASSUME NEW i \in DOMAIN tail, NEW j \in DOMAIN tail,
                        f \in Sets(tail[i]), f \in Reads(tail[j])
                 PROVE  i < j
      OBVIOUS
    <3>1. i + 1 < j + 1
      BY <1>4, <1>6 DEF Orderly
    <3> QED
      BY <1>1, <3>1
  <2>3. ASSUME NEW i \in DOMAIN tail, f \in Sets(tail[i])
        PROVE  \E j \in DOMAIN tail : f \in Reads(tail[j])
    <3>1. i + 1 \in DOMAIN todo /\ f \in Sets(todo[i + 1])
      BY <1>4, <2>3
    <3>2. PICK j \in DOMAIN todo : f \in Reads(todo[j])
      BY <1>6, <3>1 DEF Orderly
    <3>3. i + 1 < j
      BY <1>6, <3>1, <3>2 DEF Orderly
    <3>4. j # 1
      BY <1>1, <3>2, <3>3
    <3> QED
      BY <1>5, <3>2, <3>4
  <2> QED
    BY <2>1, <2>2, <2>3 DEF Orderly
<1> QED
  BY <1>1, <1>2, <1>4, <1>5, <1>6 DEF Behind

\* The host is what it is.
LEMMA PanelStays ==
  ASSUME desktop' = desktop
  PROVE  /\ Panel' = Panel
         /\ \A m, late : ReplyTold(m, late)' <=> ReplyTold(m, late)
         /\ \A c, q : CommandOK(c, q)' <=> CommandOK(c, q)
         /\ \A q, i, action : BroughtLate(q, i, action)' = BroughtLate(q, i, action)
         /\ \A r, before : Wanted(r, before)' = Wanted(r, before)
         /\ \A step, r : Allowed(step, r)' <=> Allowed(step, r)
         /\ \A action : Supports(action)' <=> Supports(action)
<1>1. Panel' = Panel
  BY DEF Panel
<1>2. \A percent : TargetRaw(percent)' = TargetRaw(percent)
  BY <1>1 DEF TargetRaw
<1>3. \A m, late : ReplyTold(m, late)' <=> ReplyTold(m, late)
  <2>1. \A percent, arg : Close(percent, arg)' <=> Close(percent, arg)
    BY <1>1, Zenon DEF Close
  <2> QED
    BY <2>1, ZenonT(30) DEF ReplyTold
<1>4. \A c, q : CommandOK(c, q)' <=> CommandOK(c, q)
  BY <1>1, Zenon DEF CommandOK
<1>5. \A r, before : Wanted(r, before)' = Wanted(r, before)
  BY <1>1, <1>2, Zenon DEF Wanted
<1>6. \A step, r : Allowed(step, r)' <=> Allowed(step, r)
  BY <1>1, Zenon DEF Allowed
<1>7. \A action : Supports(action)' <=> Supports(action)
  <2>1. VolumeTool' = VolumeTool
    BY DEF VolumeTool
  <2> QED
    BY <2>1, Zenon DEF Supports
<1>8. \A q, i, action : BroughtLate(q, i, action)' = BroughtLate(q, i, action)
  <2>1. \A action, arg : Brings(action, arg)' = Brings(action, arg)
    BY <1>1, Zenon DEF Brings
  <2> QED
    BY <2>1, Zenon DEF BroughtLate
<1> QED
  BY <1>1, <1>3, <1>4, <1>5, <1>6, <1>7, <1>8

LEMMA RepliesKept ==
  ASSUME DeskRepliesOK, desktop' = desktop, deskReplies' = deskReplies
  PROVE  DeskRepliesOK'
<1>1. \A m, late : ReplyTold(m, late)' <=> ReplyTold(m, late)
  BY PanelStays
<1>2. PICK q : q = deskReplies
  OBVIOUS
<1>3. IsSequence(q) /\ \A i \in DOMAIN q : ReplyTold(q[i], TimedOut(q, i, q[i].r.action))'
  BY <1>1, <1>2 DEF DeskRepliesOK
<1> QED
  BY <1>2, <1>3 DEF DeskRepliesOK

LEMMA RepliesGrow ==
  ASSUME DeskRepliesOK, desktop' = desktop, NEW m, ReplyTold(m, Late(m.r.action)),
         deskReplies' = Append(deskReplies, m)
  PROVE  DeskRepliesOK'
<1>1. PICK old : old = deskReplies
  OBVIOUS
<1>2. PICK new : new = deskReplies'
  OBVIOUS
<1>3. PICK n \in Nat : n = Len(old) /\ DOMAIN old = 1..n
  BY <1>1, SequenceDomain DEF DeskRepliesOK
<1>4. IsSequence(old) /\ new = Append(old, m)
  BY <1>1, <1>2 DEF DeskRepliesOK
<1>5. /\ IsSequence(new) /\ Len(new) = n + 1 /\ new[n + 1] = m
      /\ \A i \in 1..n : new[i] = old[i]
  BY <1>3, <1>4, SequenceAppend
<1>6. DOMAIN new = 1..n + 1
  BY <1>5, SequenceDomain
<1>7. \A i \in 1..n + 1 : \A action : TimedOut(new, i, action) = TimedOut(old, i, action)
  <2>1. Lengthens(new, old, n)
    BY <1>3, <1>5, <1>6 DEF Lengthens
  <2> QED
    BY <2>1, TimedOutKept
<1>8. \A k, late : ReplyTold(k, late)' <=> ReplyTold(k, late)
  BY PanelStays
<1>9. ASSUME NEW i \in DOMAIN new
      PROVE  ReplyTold(new[i], TimedOut(new, i, new[i].r.action))'
  <2>1. CASE i = n + 1
    <3>1. PICK late : late = Late(m.r.action)
      OBVIOUS
    <3>2. ReplyTold(m, late)'
      BY <1>8, <3>1
    <3>3. late = TimedOut(new, i, new[i].r.action) /\ new[i] = m
      BY <1>1, <1>3, <1>5, <1>6, <1>7, <2>1, <3>1 DEF Late
    <3> QED
      BY <3>2, <3>3
  <2>2. CASE i # n + 1
    <3>1. i \in 1..n /\ new[i] = old[i]
      BY <1>5, <1>6, <2>2
    <3>2. PICK late : late = TimedOut(old, i, old[i].r.action)
      OBVIOUS
    <3>3. late = TimedOut(new, i, new[i].r.action)
      BY <1>6, <1>7, <3>1, <3>2
    <3>4. ReplyTold(old[i], late)
      BY <1>1, <1>3, <3>1, <3>2 DEF DeskRepliesOK
    <3> QED
      BY <1>8, <3>1, <3>3, <3>4
  <2> QED
    BY <2>1, <2>2
<1> QED
  BY <1>2, <1>5, <1>9 DEF DeskRepliesOK

\* What was answered with a timeout goes on to count.
LEMMA LateStays ==
  ASSUME IsSequence(deskReplies), desktop' = desktop, RepliesGoOn, NEW action
  PROVE  LateBrings(action) \subseteq LateBrings(action)'
<1>1. \A q, i, a : BroughtLate(q, i, a)' = BroughtLate(q, i, a)
  BY PanelStays
<1>2. PICK old : old = deskReplies
  OBVIOUS
<1>3. PICK new : new = deskReplies'
  OBVIOUS
<1>4. PICK n \in Nat : n = Len(old) /\ DOMAIN old = 1..n
  BY <1>2, SequenceDomain
<1>5. CASE new = old
  <2>1. BroughtLate(new, n + 1, action)' = BroughtLate(old, n + 1, action)
    BY <1>1, <1>5
  <2>2. LateBrings(action) = BroughtLate(old, n + 1, action)
    BY <1>2, <1>4 DEF LateBrings
  <2>3. LateBrings(action)' = BroughtLate(new, n + 1, action)'
    BY <1>3, <1>4, <1>5 DEF LateBrings
  <2> QED
    BY <2>1, <2>2, <2>3
<1>6. ASSUME NEW m, new = Append(old, m)
      PROVE  LateBrings(action) \subseteq LateBrings(action)'
  <2>1. /\ IsSequence(old) /\ IsSequence(new) /\ Len(new) = n + 1
        /\ \A i \in 1..n : new[i] = old[i]
    BY <1>2, <1>4, <1>6, SequenceAppend
  <2>2. TimedOut(new, n + 1, action) = TimedOut(old, n + 1, action)
    <3>1. Lengthens(new, old, n) /\ n + 1 \in 1..n + 1
      BY <1>4, <2>1, SequenceDomain DEF Lengthens
    <3> QED
      BY <3>1, TimedOutKept
  <2>3. TimedOut(new, n + 1, action) \subseteq TimedOut(new, n + 2, action)
    <3>1. DOMAIN new = 1..n + 1
      BY <2>1, SequenceDomain
    <3>2. \A k \in DOMAIN new : k < n + 1 => k < n + 2
      BY <3>1
    <3> QED
      BY <3>2, Zenon DEF TimedOut
  <2>4. BroughtLate(old, n + 1, action) \subseteq BroughtLate(new, n + 2, action)
    BY <2>2, <2>3, Zenon DEF BroughtLate
  <2>5. LateBrings(action) = BroughtLate(old, n + 1, action)
    BY <1>2, <1>4 DEF LateBrings
  <2>6. LateBrings(action)' = BroughtLate(new, n + 2, action)'
    <3>1. Len(deskReplies') + 1 = n + 2
      BY <1>3, <2>1
    <3> QED
      BY <1>3, <3>1 DEF LateBrings
  <2>7. BroughtLate(new, n + 2, action)' = BroughtLate(new, n + 2, action)
    BY <1>1
  <2> QED
    BY <2>4, <2>5, <2>6, <2>7
<1> QED
  BY <1>2, <1>3, <1>5, <1>6 DEF RepliesGoOn

\* A setting that stands may be touched by a request for it, which then is
\* being served or has its reply.
ServesSetting(set) == \E work \in {sysWork, clipWork} : SettingOf(work.r.action) = set

LEMMA StandsOn ==
  ASSUME SettingsStand, IsSequence(deskReplies), NEW set,
         knobs' = knobs, desktop' = desktop, \A f \in Settings \ {set} : device'[f] = device[f],
         \A f \in Settings \ {set} : ServesSetting(f) => ServesSetting(f)',
         \/ deskReplies' = deskReplies /\ (set \in Settings => ServesSetting(set)')
         \/ \E m : /\ deskReplies' = Append(deskReplies, m) /\ SettingOf(m.r.action) = set
                   /\ m.after = device'
  PROVE  SettingsStand'
<1>1. SUFFICES ASSUME knobs' = 0, NEW i \in DOMAIN deskReplies', deskReplies'[i].reply.ok,
                      NEW action, action = deskReplies'[i].r.action,
                      NEW field, field = SettingOf(action), field # "nothing"
               PROVE  \/ \E j \in DOMAIN deskReplies' : j > i /\ SettingOf(deskReplies'[j].r.action) = field
                      \/ ServesSetting(field)'
                      \/ device'[field] \in {deskReplies'[i].after[field]} \cup BroughtLate(deskReplies, i, action)'
  BY DEF SettingsStand, ServesSetting
<1>2. field \in Settings
  BY <1>1 DEF SettingOf, Settings
<1>3. PICK n \in Nat : n = Len(deskReplies) /\ DOMAIN deskReplies = 1..n
  BY SequenceDomain
<1>4. PICK old : old = deskReplies
  OBVIOUS
<1>5. PICK new : new = deskReplies'
  OBVIOUS
<1>6. ASSUME NEW k \in DOMAIN old, old[k].reply.ok, old[k].r.action = action
      PROVE  \/ \E j \in DOMAIN old : j > k /\ SettingOf(old[j].r.action) = field
             \/ ServesSetting(field)
             \/ device[field] \in {old[k].after[field]} \cup BroughtLate(old, k, action)
  BY <1>1, <1>4, <1>6 DEF SettingsStand, ServesSetting
<1>9. \A q, k, a : BroughtLate(q, k, a)' = BroughtLate(q, k, a)
  BY PanelStays
<1>10. BroughtLate(deskReplies, i, action)' = BroughtLate(new, i, action)
  BY <1>5, <1>9
<1>7. CASE deskReplies' = deskReplies /\ (set \in Settings => ServesSetting(set)')
  <2>1. CASE field = set
    BY <1>2, <1>7, <2>1
  <2>2. CASE field # set
    BY <1>1, <1>2, <1>4, <1>5, <1>6, <1>7, <1>10, <2>2
  <2> QED
    BY <2>1, <2>2
<1>8. ASSUME NEW m, deskReplies' = Append(deskReplies, m), SettingOf(m.r.action) = set,
             m.after = device'
      PROVE  \/ \E j \in DOMAIN deskReplies' : j > i /\ SettingOf(deskReplies'[j].r.action) = field
             \/ ServesSetting(field)'
             \/ device'[field] \in {deskReplies'[i].after[field]} \cup BroughtLate(deskReplies, i, action)'
  <2>1. /\ IsSequence(new) /\ Len(new) = n + 1 /\ new[n + 1] = m
        /\ \A k \in 1..n : new[k] = old[k]
    BY <1>3, <1>4, <1>5, <1>8, SequenceAppend
  <2>2. DOMAIN new = 1..n + 1
    BY <2>1, SequenceDomain
  <2>3. CASE i = n + 1
    BY <1>5, <1>8, <2>1, <2>3
  <2>4. CASE i # n + 1
    <3>1. i \in 1..n /\ new[i] = old[i] /\ n + 1 \in DOMAIN new /\ n + 1 > i
      BY <1>3, <1>5, <2>1, <2>2, <2>4
    <3>2. CASE field = set
      BY <1>5, <1>8, <2>1, <3>1, <3>2
    <3>3. CASE field # set
      <4>1. \/ \E j \in DOMAIN old : j > i /\ SettingOf(old[j].r.action) = field
            \/ ServesSetting(field)
            \/ device[field] \in {old[i].after[field]} \cup BroughtLate(old, i, action)
        BY <1>1, <1>3, <1>4, <1>5, <1>6, <3>1
      <4>2. ASSUME NEW j \in DOMAIN old, j > i, SettingOf(old[j].r.action) = field
            PROVE  \E j2 \in DOMAIN new : j2 > i /\ SettingOf(new[j2].r.action) = field
        <5>1. j \in DOMAIN new /\ new[j] = old[j]
          BY <1>3, <1>4, <2>1, <2>2
        <5> QED
          BY <4>2, <5>1
      <4>3. BroughtLate(new, i, action) = BroughtLate(old, i, action)
        <5>1. Lengthens(new, old, n) /\ i \in 1..n + 1
          BY <1>3, <1>4, <2>1, <2>2, <3>1 DEF Lengthens
        <5>2. TimedOut(new, i, action) = TimedOut(old, i, action)
          BY <5>1, TimedOutKept
        <5> QED
          BY <5>2 DEF BroughtLate
      <4> QED
        BY <1>2, <1>5, <1>10, <3>1, <3>3, <4>1, <4>2, <4>3
    <3> QED
      BY <3>2, <3>3
  <2> QED
    BY <2>3, <2>4
<1> QED
  BY <1>7, <1>8

LEMMA SysFields ==
  ASSUME DesktopInv, ~SysIdle
  PROVE  /\ SysWorkOK(sysWork, device) /\ sysWork.todo[1] = SysNext /\ 1 \in DOMAIN sysWork.todo
         /\ Allowed(SysNext, sysWork.r) /\ sysWork.r.action \in SysActions
         /\ "raw" \in Sets(SysNext) =>
              /\ sysWork.r.arg \in 0..100 /\ desktop.panel = {Panel}
              /\ Panel.max \in Nat /\ Panel.max > 0 /\ Panel.writable \in BOOLEAN
<1>1. SysWorkOK(sysWork, device)
  BY DEF DesktopInv, SysIdle
<1>2. sysWork.todo[1] = SysNext /\ 1 \in DOMAIN sysWork.todo
  <2>1. PICK todo : todo = sysWork.todo
    OBVIOUS
  <2>2. todo \in Seq(DeskSteps) /\ todo # <<>>
    BY <1>1, <2>1 DEF SysWorkOK
  <2>3. PICK tail : tail = Tail(todo)
    OBVIOUS
  <2>4. DOMAIN todo = 1..Len(todo) /\ Len(todo) \in Nat /\ Len(todo) > 0 /\ Head(todo) = todo[1]
    BY <2>2, <2>3, TailInOrder DEF Behind
  <2> QED
    BY <2>1, <2>4 DEF SysNext
<1>3. Allowed(SysNext, sysWork.r)
  BY <1>1, <1>2 DEF SysWorkOK
<1>4. sysWork.r.action \in SysActions
  BY <1>1, DesktopAssumption DEF SysWorkOK
<1>5. ASSUME "raw" \in Sets(SysNext)
      PROVE  /\ sysWork.r.arg \in 0..100 /\ desktop.panel = {Panel}
             /\ Panel.max \in Nat /\ Panel.max > 0 /\ Panel.writable \in BOOLEAN
  <2>1. SettingOf(sysWork.r.action) = "raw"
    BY <1>3, <1>5 DEF Allowed
  <2>2. sysWork.r.action = "sys_brightness_set"
    BY <2>1 DEF SettingOf
  <2>3. sysWork.r.arg \in 0..100 /\ desktop.panel # {}
    BY <1>1, <2>2 DEF SysWorkOK, ValidArgument, Supports
  <2> QED
    BY <2>3, PanelKnown DEF DesktopInv
<1> QED
  BY <1>1, <1>2, <1>3, <1>4, <1>5

\* What a request knows, seen with the devices of the next state, it knows then.
LEMMA WorkCarried ==
  ASSUME IsSequence(deskReplies), desktop' = desktop, RepliesGoOn,
         NEW w, sysWork' = w, SysWorkOK(w, device')
  PROVE  SysWorkOK(sysWork, device)'
<1>1. /\ \A step, r : Allowed(step, r)' <=> Allowed(step, r)
      /\ \A action : Supports(action)' <=> Supports(action)
      /\ \A r, before : Wanted(r, before)' = Wanted(r, before)
  BY PanelStays
<1>2. PICK action : action = w.r.action
  OBVIOUS
<1>3. LateBrings(action) \subseteq LateBrings(action)'
  BY LateStays
<1>4. PICK want : want = Wanted(w.r, w.before)
  OBVIOUS
<1>5. Wanted(w.r, w.before)' = want
  BY <1>1, <1>4
<1>6. PICK d : d = device'
  OBVIOUS
<1>7. ASSUME NEW f, OnCourse(w, d, f)
      PROVE  OnCourse(w, d, f)'
  BY <1>2, <1>3, <1>4, <1>5, <1>7, Zenon DEF OnCourse, InPlace
<1>8. w.r.action \in Reported => OnCourse(w, d, SettingOf(w.r.action))'
  <2> SUFFICES ASSUME w.r.action \in Reported
               PROVE  OnCourse(w, d, SettingOf(w.r.action))'
    OBVIOUS
  <2>1. PICK f : f = SettingOf(w.r.action)
    OBVIOUS
  <2>2. OnCourse(w, d, f)
    BY <1>6, <2>1 DEF SysWorkOK
  <2>3. OnCourse(w, d, f)'
    BY <1>7, <2>2
  <2> QED
    BY <2>1, <2>3
<1>9. Supports(w.r.action)' /\ \A i \in DOMAIN w.todo : Allowed(w.todo[i], w.r)'
  BY <1>1 DEF SysWorkOK
<1>10. SysWorkOK(w, d)
  BY <1>6
<1>11. SysWorkOK(w, d)'
  BY <1>8, <1>9, <1>10 DEF SysWorkOK, ValidArgument, IsDevice, LastHeard, ProfileCourse, ToShow, Showable
<1> QED
  BY <1>6, <1>11 DEF SysWorkOK, OnCourse, InPlace

\* Two devices that are the same to a request but for what does not concern it.
LEMMA CourseStays ==
  ASSUME NEW w, NEW d, NEW e, SysWorkOK(w, d),
         \A f \in Settings \ {"board"} : e[f] = d[f], e.known = d.known, e.coming = d.coming
  PROVE  SysWorkOK(w, e)
<1>1. ASSUME w.r.action \in Reported
      PROVE  OnCourse(w, e, SettingOf(w.r.action))
  <2>1. PICK f : f = SettingOf(w.r.action)
    OBVIOUS
  <2>2. e[f] = d[f]
    BY <1>1, <2>1 DEF Reported, SettingOf, Settings
  <2>3. OnCourse(w, d, f)
    BY <1>1, <2>1 DEF SysWorkOK
  <2> QED
    BY <2>1, <2>2, <2>3 DEF OnCourse
<1>2. ASSUME w.r.action \in ProfileActions
      PROVE  ProfileCourse(w, e)
  BY <1>2 DEF SysWorkOK, ProfileCourse
<1> QED
  BY <1>1, <1>2 DEF SysWorkOK

\* A step that has its effect changes the setting of its request at most.
LEMMA StepActs ==
  ASSUME DesktopInv, ~SysIdle, ~Delegated, desktop' = desktop,
         device' = Effect(SysNext, sysWork.r.arg)
  PROVE  /\ IsDevice(device)' /\ PanelStaysLit'
         /\ \A f \in Settings : f \notin Sets(SysNext) => device'[f] = device[f]
         /\ \A f \in Settings \ {SettingOf(sysWork.r.action)} : device'[f] = device[f]
         /\ device'.known = device.known
         /\ \/ device'.coming = device.coming
            \/ SysNext = "set_profile" /\ device'.coming = Append(device.coming, sysWork.r.arg)
<1>1. /\ IsDevice(device')
      /\ \A f \in Settings \ Sets(SysNext) : device'[f] = device[f]
      /\ device'.known = device.known
      /\ \/ device'.coming = device.coming
         \/ SysNext = "set_profile" /\ device'.coming = Append(device.coming, sysWork.r.arg)
  <2>1. PICK step, arg, d : step = SysNext /\ arg = sysWork.r.arg /\ d = Effect(step, arg)
    OBVIOUS
  <2>2. "raw" \in Sets(step) => arg \in 0..100 /\ Panel.max \in Nat
    BY <2>1, SysFields
  <2>3. /\ IsDevice(d) /\ \A f \in Settings \ Sets(step) : d[f] = device[f]
        /\ d.known = device.known
        /\ \/ d.coming = device.coming
           \/ step = "set_profile" /\ d.coming = Append(device.coming, arg)
    <3>1. IsDevice(device)
      BY DEF DesktopInv
    <3>2. /\ IsDevice(Effect(step, arg))
          /\ \A f \in Settings \ Sets(step) : Effect(step, arg)[f] = device[f]
          /\ Effect(step, arg).known = device.known
          /\ \/ Effect(step, arg).coming = device.coming
             \/ step = "set_profile" /\ Effect(step, arg).coming = Append(device.coming, arg)
      BY <2>2, <3>1, EffectTrue, Zenon
    <3> QED
      BY <2>1, <3>2
  <2>4. device' = d
    BY <2>1
  <2> QED
    BY <2>1, <2>3, <2>4
<1>2. IsDevice(device)'
  BY <1>1 DEF IsDevice, LastHeard
<1>3. \A f \in Settings \ {SettingOf(sysWork.r.action)} : device'[f] = device[f]
  BY <1>1, SysFields DEF Allowed
<1>4. PanelStaysLit'
  <2>1. CASE "raw" \notin Sets(SysNext)
    <3>1. device'["raw"] = device["raw"]
      BY <1>1, <2>1 DEF Settings
    <3> QED
      BY <3>1 DEF PanelStaysLit, DesktopInv
  <2>2. CASE "raw" \in Sets(SysNext) /\ SysNext = "write brightness"
    <3>1. TargetRaw(sysWork.r.arg) > 0
      BY <2>2, SysFields, TargetLit
    <3>2. device'.raw = TargetRaw(sysWork.r.arg)
      BY <2>2 DEF Effect, DesktopInv, IsDevice, DeviceFields
    <3> QED
      BY <3>1, <3>2 DEF PanelStaysLit
  <2>3. CASE "raw" \in Sets(SysNext) /\ SysNext # "write brightness"
    <3>1. SysNext = "brightnessctl"
      BY <2>3 DEF Sets
    <3>2. ~Panel.writable /\ desktop.panel = {Panel}
      BY <2>3, <3>1, SysFields DEF Allowed
    <3> QED
      BY <3>2 DEF PanelStaysLit
  <2> QED
    BY <2>1, <2>2, <2>3
<1> QED
  BY <1>1, <1>2, <1>3, <1>4

\* A mute that was given up may bring the sound on or off.
LEMMA MutesEither ==
  ASSUME NEW x \in LateBrings("sys_volume_mute")
  PROVE  BOOLEAN \subseteq LateBrings("sys_volume_mute")
<1>1. \A arg : Brings("sys_volume_mute", arg) = BOOLEAN
  BY DEF Brings
<1>2. PICK late : late = TimedOut(deskReplies, Len(deskReplies) + 1, "sys_volume_mute")
  OBVIOUS
<1>3. LateBrings("sys_volume_mute") = UNION {Brings("sys_volume_mute", arg) : arg \in late}
  BY <1>2 DEF LateBrings, BroughtLate
<1>4. PICK arg \in late : x \in Brings("sys_volume_mute", arg)
  BY <1>3
<1> QED
  BY <1>1, <1>3, <1>4

\* A step that sets what its request is for sets it to what is wanted.
LEMMA StepSets ==
  ASSUME DesktopInv, ~SysIdle, ~Delegated, desktop' = desktop,
         device' = Effect(SysNext, sysWork.r.arg),
         NEW f, f = SettingOf(sysWork.r.action), f \in Sets(SysNext),
         sysWork.r.action \in Reported,
         device[f] \in {sysWork.before[f]} \cup LateBrings(sysWork.r.action)
  PROVE  device'[f] \in InPlace(sysWork)
<1>1. /\ SysWorkOK(sysWork, device) /\ DOMAIN device = DeviceFields
  BY SysFields DEF DesktopInv, IsDevice
<1>2. CASE sysWork.r.action = "sys_volume_set"
  <2>1. f = "volume" /\ SysNext = "set-volume"
    BY <1>2 DEF SettingOf, Sets
  <2>2. device'[f] = Wanted(sysWork.r, sysWork.before)
    BY <1>1, <1>2, <2>1 DEF Effect, Wanted, DeviceFields
  <2> QED
    BY <2>2 DEF InPlace
<1>3. CASE sysWork.r.action = "sys_volume_mute"
  <2>1. f = "muted" /\ SysNext = "set-mute"
    BY <1>3 DEF SettingOf, Sets
  <2>2. device'.muted = CASE sysWork.r.arg = "on" -> TRUE [] sysWork.r.arg = "off" -> FALSE
                          [] OTHER -> ~device.muted
    BY <1>1, <2>1 DEF Effect, DeviceFields
  <2>3. sysWork.r.arg \in {"on", "off", "toggle"}
    BY <1>1, <1>3 DEF SysWorkOK, ValidArgument
  <2>4. Wanted(sysWork.r, sysWork.before) =
          IF sysWork.r.arg = "toggle" THEN ~sysWork.before.muted ELSE sysWork.r.arg = "on"
    BY <1>3 DEF Wanted
  <2>5. CASE device.muted = sysWork.before.muted
    <3>1. device'.muted = Wanted(sysWork.r, sysWork.before)
      <4>1. CASE sysWork.r.arg = "on"
        BY <2>2, <2>4, <4>1
      <4>2. CASE sysWork.r.arg = "off"
        BY <2>2, <2>4, <4>2
      <4>3. CASE sysWork.r.arg = "toggle"
        BY <2>2, <2>4, <2>5, <4>3
      <4> QED
        BY <2>3, <4>1, <4>2, <4>3
    <3> QED
      BY <2>1, <3>1 DEF InPlace
  <2>6. CASE device.muted # sysWork.before.muted
    <3>1. BOOLEAN \subseteq LateBrings("sys_volume_mute")
      BY <1>3, <2>1, <2>6, MutesEither
    <3>2. device'.muted \in BOOLEAN
      BY StepActs DEF IsDevice
    <3> QED
      BY <1>3, <2>1, <3>1, <3>2 DEF InPlace
  <2> QED
    BY <2>5, <2>6
<1>4. CASE sysWork.r.action = "sys_brightness_set"
  <2>1. f = "raw" /\ SysNext \in {"write brightness", "brightnessctl"}
    BY <1>4 DEF SettingOf, Sets
  <2>2. CASE SysNext = "write brightness"
    <3>1. Panel.writable
      BY <2>2 DEF Delegated
    <3>2. device'[f] = Wanted(sysWork.r, sysWork.before)
      BY <1>1, <1>4, <2>1, <2>2, <3>1 DEF Effect, Wanted, DeviceFields
    <3> QED
      BY <3>2 DEF InPlace
  <2>3. CASE SysNext = "brightnessctl"
    <3>1. ~Panel.writable
      BY <2>3, SysFields DEF Allowed
    <3>2. device'[f] = Wanted(sysWork.r, sysWork.before)
      BY <1>1, <1>4, <2>1, <2>3, <3>1 DEF Effect, Wanted, DeviceFields
    <3> QED
      BY <3>2 DEF InPlace
  <2> QED
    BY <2>1, <2>2, <2>3
<1> QED
  BY <1>2, <1>3, <1>4 DEF Reported

\* What a request has seen once a step is done, and where that leaves it.
SeenAfter ==
  LET new == Seen(SysNext) old == sysWork.seen IN
  [f \in DOMAIN new \cup DOMAIN old |-> IF f \in DOMAIN new THEN new[f] ELSE old[f]]
Moved == [r |-> sysWork.r, todo |-> Tail(sysWork.todo), seen |-> SeenAfter,
          before |-> sysWork.before, alone |-> sysWork.alone]

LEMMA SeenMore ==
  /\ DOMAIN SeenAfter = Reads(SysNext) \cup DOMAIN sysWork.seen
  /\ \A g \in DOMAIN SeenAfter : SeenAfter[g] = IF g \in Reads(SysNext) THEN device[g] ELSE sysWork.seen[g]
<1>1. DOMAIN Seen(SysNext) = Reads(SysNext) /\ \A g \in Reads(SysNext) : Seen(SysNext)[g] = device[g]
  BY SeenTrue
<1> QED
  BY <1>1 DEF SeenAfter

LEMMA StepLeft ==
  ASSUME DesktopInv, ~SysIdle, NEW tail, tail = Tail(sysWork.todo)
  PROVE  Behind(tail, sysWork.todo) /\ \A f : Orderly(sysWork.todo, f) => Orderly(tail, f)
<1>1. PICK todo : todo = sysWork.todo
  OBVIOUS
<1>2. todo \in Seq(DeskSteps) /\ todo # <<>>
  BY <1>1, SysFields DEF SysWorkOK
<1>3. Behind(tail, todo) /\ \A f : Orderly(todo, f) => Orderly(tail, f)
  BY <1>1, <1>2, TailInOrder
<1> QED
  BY <1>1, <1>3

\* A step keeps a request on its course, to the last one.
LEMMA CourseKept ==
  ASSUME DesktopInv, ~SysIdle, ~Delegated, desktop' = desktop,
         device' = Effect(SysNext, sysWork.r.arg),
         sysWork.r.action \in Reported, NEW f, f = SettingOf(sysWork.r.action),
         NEW w, w = Moved
  PROVE  OnCourse(w, device', f)
<1>1. /\ SysWorkOK(sysWork, device) /\ sysWork.todo[1] = SysNext /\ 1 \in DOMAIN sysWork.todo
  BY SysFields
<1>2. f \in Settings
  BY DEF Reported, SettingOf, Settings
<1>3. OnCourse(sysWork, device, f)
  BY <1>1 DEF SysWorkOK
<1>4. PICK todo, tail : todo = sysWork.todo /\ tail = Tail(sysWork.todo)
  OBVIOUS
<1>5. Orderly(todo, f)
  BY <1>3, <1>4 DEF OnCourse
<1>6. /\ DOMAIN tail = 1..Len(todo) - 1 /\ DOMAIN todo = 1..Len(todo)
      /\ Len(todo) \in Nat /\ Len(todo) > 0
      /\ \A i \in DOMAIN tail : i + 1 \in DOMAIN todo /\ tail[i] = todo[i + 1]
      /\ \A j \in DOMAIN todo : j # 1 => j - 1 \in DOMAIN tail /\ todo[j] = tail[j - 1]
  <2>1. Behind(tail, todo)
    BY <1>4, StepLeft
  <2> QED
    BY <2>1 DEF Behind
<1>7. Orderly(tail, f)
  <2>1. \A g : Orderly(todo, g) => Orderly(tail, g)
    BY <1>4, StepLeft
  <2> QED
    BY <1>5, <2>1, Zenon
<1>8. \A i \in DOMAIN tail : i + 1 # 1
  BY <1>6
<1>9. PICK late : late = LateBrings(sysWork.r.action)
  OBVIOUS
<1>10. w.alone => device[f] \in IF \E i \in DOMAIN todo : f \in Sets(todo[i])
                                THEN {sysWork.before[f]} \cup late ELSE InPlace(sysWork)
  BY <1>3, <1>4, <1>9 DEF OnCourse, Moved
<1>11. f \notin Sets(SysNext) => device'[f] = device[f]
  BY <1>2, StepActs
<1>12. w.alone => device'[f] \in IF \E i \in DOMAIN tail : f \in Sets(tail[i])
                                 THEN {sysWork.before[f]} \cup late ELSE InPlace(sysWork)
  <2>1. CASE f \in Sets(SysNext)
    <3>1. \E i \in DOMAIN todo : f \in Sets(todo[i])
      BY <1>1, <1>4, <2>1
    <3>2. ~\E i \in DOMAIN tail : f \in Sets(tail[i])
      BY <1>1, <1>4, <1>5, <1>6, <1>8, <2>1 DEF Orderly
    <3>3. w.alone => device[f] \in {sysWork.before[f]} \cup LateBrings(sysWork.r.action)
      BY <1>9, <1>10, <3>1
    <3>4. w.alone => device'[f] \in InPlace(sysWork)
      BY <2>1, <3>3, StepSets
    <3> QED
      BY <3>2, <3>4
  <2>2. CASE f \notin Sets(SysNext)
    <3>1. (\E i \in DOMAIN tail : f \in Sets(tail[i])) <=> \E i \in DOMAIN todo : f \in Sets(todo[i])
      BY <1>1, <1>4, <1>6, <2>2
    <3> QED
      BY <1>10, <1>11, <2>2, <3>1
  <2> QED
    BY <2>1, <2>2
<1>13. PICK seen : seen = SeenAfter
  OBVIOUS
<1>14. \/ \E j \in DOMAIN tail : f \in Reads(tail[j])
       \/ f \in DOMAIN seen /\ (w.alone => seen[f] \in InPlace(sysWork))
  <2>1. /\ DOMAIN seen = Reads(SysNext) \cup DOMAIN sysWork.seen
        /\ \A g \in DOMAIN seen : seen[g] = IF g \in Reads(SysNext) THEN device[g] ELSE sysWork.seen[g]
    BY <1>13, SeenMore
  <2>2. CASE f \in Reads(SysNext)
    <3>1. ~\E i \in DOMAIN todo : f \in Sets(todo[i])
      <4> SUFFICES ASSUME NEW i \in DOMAIN todo, f \in Sets(todo[i]) PROVE FALSE
        OBVIOUS
      <4>1. i < 1
        BY <1>1, <1>4, <1>5, <2>2 DEF Orderly
      <4> QED
        BY <1>6, <4>1
    <3> QED
      BY <1>10, <2>1, <2>2, <3>1
  <2>3. CASE f \notin Reads(SysNext) /\ \E j \in DOMAIN todo : f \in Reads(todo[j])
    BY <1>1, <1>4, <1>6, <2>3
  <2>4. CASE ~\E j \in DOMAIN todo : f \in Reads(todo[j])
    <3>1. f \notin Reads(SysNext)
      BY <1>1, <1>4, <2>4
    <3>2. f \in DOMAIN sysWork.seen /\ (w.alone => sysWork.seen[f] \in InPlace(sysWork))
      BY <1>3, <1>4, <2>4 DEF OnCourse, Moved
    <3> QED
      BY <2>1, <3>1, <3>2
  <2> QED
    BY <2>2, <2>3, <2>4
<1>15. /\ w.todo = tail /\ w.seen = seen /\ w.before = sysWork.before /\ w.r = sysWork.r
       /\ InPlace(w) = InPlace(sysWork)
  BY <1>4, <1>13 DEF Moved, InPlace
<1> QED
  BY <1>7, <1>9, <1>12, <1>14, <1>15 DEF OnCourse

\* So does it with the power profile.
LEMMA ProfileKept ==
  ASSUME DesktopInv, ~SysIdle, ~Delegated, desktop' = desktop,
         device' = Effect(SysNext, sysWork.r.arg),
         sysWork.r.action \in ProfileActions, NEW w, w = Moved
  PROVE  ProfileCourse(w, device')
<1>1. /\ SysWorkOK(sysWork, device) /\ sysWork.todo[1] = SysNext /\ 1 \in DOMAIN sysWork.todo
      /\ Allowed(SysNext, sysWork.r)
  BY SysFields
<1>2. ProfileCourse(sysWork, device)
  BY <1>1 DEF SysWorkOK
<1>3. PICK todo, tail, show, seen :
        /\ todo = sysWork.todo /\ tail = Tail(sysWork.todo) /\ seen = SeenAfter
        /\ show = ToShow(sysWork.r, sysWork.before)
  OBVIOUS
<1>4. \A j \in DOMAIN todo : j # 1 => j - 1 \in DOMAIN tail /\ todo[j] = tail[j - 1]
  BY <1>3, StepLeft DEF Behind
<1>5. /\ w.todo = tail /\ w.seen = seen /\ w.before = sysWork.before /\ w.r = sysWork.r
      /\ w.alone = sysWork.alone
  BY <1>3 DEF Moved
<1>6. w.alone => device.known \in show /\ \A i \in DOMAIN device.coming : device.coming[i] \in show
  BY <1>2, <1>3, <1>5 DEF ProfileCourse
<1>7. w.alone => device'.known \in show /\ \A i \in DOMAIN device'.coming : device'.coming[i] \in show
  <2>1. CASE device'.coming = device.coming
    BY <1>6, <2>1, StepActs
  <2>2. CASE SysNext = "set_profile" /\ device'.coming = Append(device.coming, sysWork.r.arg)
    <3>1. sysWork.r.action = "sys_power_profile_set"
      BY <1>1, <2>2 DEF Allowed, Sets, SettingOf
    <3>2. sysWork.r.arg \in show
      BY <1>3, <3>1 DEF ToShow
    <3>3. PICK old, new, arg : old = device.coming /\ new = device'.coming /\ arg = sysWork.r.arg
      OBVIOUS
    <3>4. IsSequence(old)
      BY <3>3 DEF DesktopInv, IsDevice, LastHeard
    <3>5. PICK n \in Nat : n = Len(old) /\ DOMAIN old = 1..n
      BY <3>4, SequenceDomain
    <3>6. /\ IsSequence(new) /\ Len(new) = n + 1 /\ new[n + 1] = arg
          /\ \A i \in 1..n : new[i] = old[i]
      BY <2>2, <3>3, <3>4, <3>5, SequenceAppend
    <3>7. DOMAIN new = 1..n + 1
      BY <3>6, SequenceDomain
    <3>8. w.alone => \A i \in DOMAIN new : new[i] \in show
      BY <1>6, <3>2, <3>3, <3>5, <3>6, <3>7
    <3> QED
      BY <1>6, <3>3, <3>8, StepActs
  <2> QED
    BY <2>1, <2>2, StepActs
<1>8. \/ \E j \in DOMAIN tail : tail[j] = "profile"
      \/ "known" \in DOMAIN seen /\ (w.alone => seen["known"] \in show)
  <2>1. /\ DOMAIN seen = Reads(SysNext) \cup DOMAIN sysWork.seen
        /\ \A g \in DOMAIN seen : seen[g] = IF g \in Reads(SysNext) THEN device[g] ELSE sysWork.seen[g]
    BY <1>3, SeenMore
  <2>2. "known" \in Reads(SysNext) <=> SysNext = "profile"
    BY DEF Reads
  <2>3. CASE SysNext = "profile"
    BY <1>6, <2>1, <2>2, <2>3
  <2>4. CASE SysNext # "profile" /\ \E j \in DOMAIN todo : todo[j] = "profile"
    BY <1>1, <1>3, <1>4, <2>4
  <2>5. CASE ~\E j \in DOMAIN todo : todo[j] = "profile"
    <3>1. "known" \notin Reads(SysNext)
      BY <1>1, <1>3, <2>2, <2>5
    <3>2. "known" \in DOMAIN sysWork.seen /\ (w.alone => sysWork.seen["known"] \in show)
      BY <1>2, <1>3, <1>5, <2>5 DEF ProfileCourse
    <3> QED
      BY <2>1, <3>1, <3>2
  <2> QED
    BY <2>3, <2>4, <2>5
<1> QED
  BY <1>3, <1>5, <1>7, <1>8 DEF ProfileCourse

\* What the last step leaves to be told is true.
LEMMA SysReplyTold ==
  ASSUME DesktopInv, ~SysIdle, ~Delegated, desktop' = desktop,
         device' = Effect(SysNext, sysWork.r.arg), Len(sysWork.todo) = 1,
         NEW m, m.r = sysWork.r, m.reply = SysReply(sysWork.r, SeenAfter),
         m.alone = sysWork.alone, m.before = sysWork.before
  PROVE  ReplyTold(m, Late(m.r.action))
<1>1. SysWorkOK(sysWork, device) /\ sysWork.r.action \in SysActions
  BY SysFields
<1>2. PICK w, seen, f, late :
        w = Moved /\ seen = SeenAfter /\ f = SettingOf(m.r.action) /\ late = Late(m.r.action)
  OBVIOUS
<1>3. /\ w.r = m.r /\ w.seen = seen /\ w.before = m.before /\ w.alone = m.alone
      /\ DOMAIN w.todo = {}
  <2>1. PICK tail : tail = Tail(sysWork.todo)
    OBVIOUS
  <2>2. DOMAIN tail = 1..Len(sysWork.todo) - 1
    BY <2>1, StepLeft DEF Behind
  <2> QED
    BY <1>2, <2>1, <2>2 DEF Moved
<1>4. m.alone /\ m.r.action \in Reported =>
        seen[f] = Wanted(m.r, m.before) \/ seen[f] \in LateBrings(m.r.action)
  <2> SUFFICES ASSUME m.alone, m.r.action \in Reported
               PROVE  seen[f] = Wanted(m.r, m.before) \/ seen[f] \in LateBrings(m.r.action)
    OBVIOUS
  <2>1. OnCourse(w, device', f)
    BY <1>2, CourseKept
  <2>2. seen[f] \in InPlace(w)
    BY <1>3, <2>1 DEF OnCourse
  <2> QED
    BY <1>3, <2>2 DEF InPlace
<1>5. m.alone /\ m.r.action \in ProfileActions => seen["known"] \in ToShow(m.r, m.before)
  <2> SUFFICES ASSUME m.alone, m.r.action \in ProfileActions
               PROVE  seen["known"] \in ToShow(m.r, m.before)
    OBVIOUS
  <2>1. ProfileCourse(w, device')
    BY <1>2, ProfileKept
  <2> QED
    BY <1>3, <2>1 DEF ProfileCourse
<1>6. m.reply = SysReply(m.r, seen)
  BY <1>2
<1>7. m.reply # DeskGivenUp
  <2>1. "late" \in DOMAIN DeskGivenUp
    BY DEF DeskGivenUp
  <2>2. "late" \notin DOMAIN m.reply
    <3>1. m.reply = DeskRefused \/ "late" \notin DOMAIN SysReply(m.r, seen)
      BY <1>6 DEF SysReply
    <3>2. "late" \notin DOMAIN DeskRefused
      BY DEF DeskRefused
    <3> QED
      BY <1>6, <3>1, <3>2
  <2> QED
    BY <2>1, <2>2
<1>8. LateBrings(m.r.action) = UNION {Brings(m.r.action, arg) : arg \in late}
  BY <1>2 DEF LateBrings, BroughtLate, Late
<1>9. CASE m.r.action = "sys_volume_set"
  <2>1. m.alone => seen["volume"] \in {m.r.arg} \cup late
    <3>1. \A arg : Brings(m.r.action, arg) = {arg}
      BY <1>9 DEF Brings
    <3>2. f = "volume" /\ Wanted(m.r, m.before) = m.r.arg /\ m.r.action \in Reported
      BY <1>2, <1>9 DEF SettingOf, Wanted, Reported
    <3> QED
      BY <1>4, <1>8, <3>1, <3>2
  <2>2. m.reply.ok => m.reply.volume = seen.volume
    BY <1>6, <1>9 DEF SysReply, DeskRefused
  <2> QED
    BY <1>2, <1>7, <1>9, <2>1, <2>2 DEF ReplyTold
<1>10. CASE m.r.action = "sys_volume_mute"
  <2>1. m.alone /\ late = {} => seen["muted"] = (IF m.r.arg = "toggle" THEN ~m.before.muted ELSE m.r.arg = "on")
    <3>1. f = "muted" /\ m.r.action \in Reported
      BY <1>2, <1>10 DEF SettingOf, Reported
    <3>2. late = {} => LateBrings(m.r.action) = {}
      BY <1>8
    <3>3. Wanted(m.r, m.before) = IF m.r.arg = "toggle" THEN ~m.before.muted ELSE m.r.arg = "on"
      BY <1>10 DEF Wanted
    <3> QED
      BY <1>4, <3>1, <3>2, <3>3
  <2>2. m.reply.ok => m.reply.muted = seen.muted
    BY <1>6, <1>10 DEF SysReply, DeskRefused
  <2>3. m.reply.ok /\ m.alone /\ late = {} =>
          m.reply.muted = (IF m.r.arg = "toggle" THEN ~m.before.muted ELSE m.r.arg = "on")
    BY <2>1, <2>2
  <2> QED
    BY <1>2, <1>7, <1>10, <2>3 DEF ReplyTold
<1>11. CASE m.r.action = "sys_brightness_set"
  <2>1. m.r.arg \in 0..100 /\ Panel.max \in Nat /\ Panel.max > 0
    <3>1. m.r.arg \in 0..100 /\ desktop.panel # {}
      BY <1>1, <1>11 DEF SysWorkOK, ValidArgument, Supports
    <3> QED
      BY <3>1, PanelKnown DEF DesktopInv
  <2>2. \A arg \in late : arg \in 0..100
    <3> SUFFICES ASSUME NEW arg \in late PROVE arg \in 0..100
      OBVIOUS
    <3>1. PICK k \in DOMAIN deskReplies :
            /\ deskReplies[k].r.action = "sys_brightness_set" /\ deskReplies[k].reply = DeskGivenUp
            /\ arg = deskReplies[k].r.arg
      BY <1>2, <1>11 DEF Late, TimedOut
    <3> QED
      BY <3>1 DEF DesktopInv, DeskRepliesOK, ReplyTold
  <2>3. m.alone => \E arg \in {m.r.arg} \cup late :
                     seen["raw"] \in {TargetRaw(arg), (Panel.max * arg) \div 100}
    <3>1. f = "raw" /\ m.r.action \in Reported
          /\ Wanted(m.r, m.before) \in {TargetRaw(m.r.arg), (Panel.max * m.r.arg) \div 100}
      BY <1>2, <1>11 DEF SettingOf, Wanted, Reported
    <3>2. \A arg : Brings(m.r.action, arg) = {(Panel.max * arg) \div 100}
      BY <1>11 DEF Brings
    <3>3. CASE seen["raw"] \in LateBrings(m.r.action)
      <4>1. PICK arg \in late : seen["raw"] \in Brings(m.r.action, arg)
        BY <1>8, <3>3
      <4> QED
        BY <3>2, <4>1
    <3>4. CASE seen["raw"] = Wanted(m.r, m.before)
      BY <3>1, <3>4
    <3> QED
      BY <1>4, <3>1, <3>3, <3>4
  <2>4. m.reply.percent = CalcPercent(seen.raw)
    BY <1>6, <1>11 DEF SysReply
  <2>5. m.alone => \E arg \in {m.r.arg} \cup late : Close(m.reply.percent, arg)
    <3> SUFFICES ASSUME m.alone
                 PROVE  \E arg \in {m.r.arg} \cup late : Close(m.reply.percent, arg)
      OBVIOUS
    <3>1. PICK raw : raw = seen["raw"]
      OBVIOUS
    <3>2. PICK arg \in {m.r.arg} \cup late : raw \in {TargetRaw(arg), (Panel.max * arg) \div 100}
      BY <2>3, <3>1
    <3>3. arg \in 0..100
      BY <2>1, <2>2
    <3>4. /\ 2 * (CalcPercent(raw) * Panel.max - arg * Panel.max) <= 200 + Panel.max
          /\ -2 * (CalcPercent(raw) * Panel.max - arg * Panel.max) <= 200 + Panel.max
      BY <2>1, <3>2, <3>3, PercentClose, ZenonT(30)
    <3>5. CalcPercent(raw) = m.reply.percent
      BY <2>4, <3>1
    <3>6. Close(m.reply.percent, arg)
      BY <3>4, <3>5, Zenon DEF Close
    <3> QED
      BY <3>6
  <2> QED
    BY <1>2, <1>7, <1>11, <2>5 DEF ReplyTold
<1>12. CASE m.r.action \in ProfileActions
  <2>1. m.reply.profile = seen.known
    BY <1>6, <1>12 DEF SysReply, ProfileActions
  <2>2. m.alone => m.reply.profile \in ToShow(m.r, m.before)
    BY <1>5, <1>12, <2>1
  <2> QED
    BY <1>2, <1>7, <1>12, <2>2 DEF ReplyTold, ToShow, ProfileActions
<1>13. CASE m.r.action \notin Reported \cup ProfileActions
  BY <1>1, <1>7, <1>13 DEF ReplyTold, Reported, ProfileActions, SysActions
<1> QED
  BY <1>9, <1>10, <1>11, <1>12, <1>13 DEF Reported

\* A command that was given up is that of the same reply, whatever is replied since.
LEMMA CommandKept ==
  ASSUME IsSequence(deskReplies), desktop' = desktop, RepliesGoOn, NEW c, CommandOK(c, deskReplies)
  PROVE  CommandOK(c, deskReplies)'
<1>1. \A q : CommandOK(c, q)' <=> CommandOK(c, q)
  BY PanelStays
<1>2. PICK old, new : old = deskReplies /\ new = deskReplies'
  OBVIOUS
<1>3. c.by \in DOMAIN new /\ new[c.by] = old[c.by]
  <2>1. CASE new = old
    BY <1>2, <2>1 DEF CommandOK
  <2>2. ASSUME NEW m, new = Append(old, m)
        PROVE  c.by \in DOMAIN new /\ new[c.by] = old[c.by]
    <3>1. PICK n \in Nat : n = Len(old) /\ DOMAIN old = 1..n
      BY <1>2, SequenceDomain
    <3>2. IsSequence(old) /\ c.by \in 1..n
      BY <1>2, <3>1 DEF CommandOK
    <3>3. IsSequence(new) /\ Len(new) = n + 1 /\ \A i \in 1..n : new[i] = old[i]
      BY <2>2, <3>1, <3>2, SequenceAppend
    <3>4. DOMAIN new = 1..n + 1
      BY <3>3, SequenceDomain
    <3> QED
      BY <3>2, <3>3, <3>4
  <2> QED
    BY <1>2, <2>1, <2>2 DEF RepliesGoOn
<1>4. CommandOK(c, new)
  <2>1. CommandOK(c, old)
    BY <1>2
  <2> QED
    BY <1>3, <2>1, Zenon DEF CommandOK
<1>5. CommandOK(c, new)'
  BY <1>1, <1>4
<1> QED
  BY <1>2, <1>5 DEF CommandOK

LEMMA GivenUpKept ==
  ASSUME GivenUpKnown, IsSequence(deskReplies), desktop' = desktop, RepliesGoOn,
         givenUp' \subseteq givenUp
  PROVE  GivenUpKnown'
BY CommandKept DEF GivenUpKnown

\* A step of system leaves the clipboard alone.
LEMMA ClipKept ==
  ASSUME DesktopInv, clipWork' = clipWork, device'.board = device.board
  PROVE  clipWork' # NoDeskWork => ClipWorkOK(clipWork)'
BY DEF DesktopInv, ClipWorkOK

LEMMA BoardKept ==
  ASSUME NEW action \in SysActions,
         \A f \in Settings \ {SettingOf(action)} : device'[f] = device[f]
  PROVE  device'.board = device.board
<1>1. SettingOf(action) # "board"
  BY DEF SysActions, SettingOf
<1> QED
  BY <1>1 DEF Settings

\* A request of system goes on, or has its reply: the rest follows.
LEMMA SysGoesOn ==
  ASSUME DesktopInv, ~SysIdle, desktop' = desktop, clipWork' = clipWork, knobs' = knobs,
         givenUp' = givenUp, deskReplies' = deskReplies,
         NEW w, sysWork' = w, w.r = sysWork.r, SysWorkOK(w, device'),
         IsDevice(device)', PanelStaysLit',
         \A f \in Settings \ {SettingOf(sysWork.r.action)} : device'[f] = device[f]
  PROVE  DesktopInv'
<1>1. PICK set : set = SettingOf(sysWork.r.action)
  OBVIOUS
<1>2. sysWork.r.action \in SysActions /\ IsSequence(deskReplies) /\ RepliesGoOn
  BY SysFields DEF DesktopInv, RepliesGoOn
<1>3. GivenUpKnown' /\ DeskRepliesOK'
  BY <1>2, GivenUpKept, RepliesKept DEF DesktopInv
<1>4. SettingsStand'
  <2>1. \A f : ServesSetting(f) => ServesSetting(f)'
    BY DEF ServesSetting
  <2>2. ServesSetting(set)'
    BY <1>1 DEF ServesSetting
  <2>3. \A f \in Settings \ {set} : device'[f] = device[f]
    BY <1>1
  <2> QED
    BY <2>1, <2>2, <2>3, StandsOn DEF DesktopInv
<1>5. SysWorkOK(sysWork, device)'
  BY <1>2, WorkCarried
<1>6. clipWork' # NoDeskWork => ClipWorkOK(clipWork)'
  BY <1>2, BoardKept, ClipKept
<1> QED
  BY <1>2, <1>3, <1>4, <1>5, <1>6 DEF DesktopInv

LEMMA SysAnswers ==
  ASSUME DesktopInv, ~SysIdle, desktop' = desktop, clipWork' = clipWork, knobs' = knobs,
         GivenUpKnown', NEW reply, SysEnds(reply),
         IsDevice(device)', PanelStaysLit',
         \A f \in Settings \ {SettingOf(sysWork.r.action)} : device'[f] = device[f],
         \A m : m.r = sysWork.r /\ m.reply = reply /\ m.alone = sysWork.alone
                /\ m.before = sysWork.before => ReplyTold(m, Late(m.r.action))
  PROVE  DesktopInv'
<1>1. PICK set : set = SettingOf(sysWork.r.action)
  OBVIOUS
<1>2. sysWork.r.action \in SysActions /\ SysWorkOK(sysWork, device) /\ IsSequence(deskReplies)
  BY SysFields DEF DesktopInv
<1>3. PICK m : m = [r |-> sysWork.r, reply |-> reply, alone |-> sysWork.alone,
                    before |-> sysWork.before, after |-> device']
  OBVIOUS
<1>4. deskReplies' = Append(deskReplies, m) /\ sysWork' = NoDeskWork
  <2>1. "before" \in DOMAIN sysWork
    BY <1>2 DEF SysWorkOK
  <2> QED
    BY <1>3, <2>1 DEF SysEnds, DeskTold
<1>5. ReplyTold(m, Late(m.r.action))
  BY <1>3
<1>6. DeskRepliesOK'
  BY <1>4, <1>5, RepliesGrow DEF DesktopInv
<1>7. SettingsStand'
  <2>1. \A f \in Settings \ {set} : ServesSetting(f) => ServesSetting(f)'
    BY <1>1 DEF ServesSetting
  <2>2. \A f \in Settings \ {set} : device'[f] = device[f]
    BY <1>1
  <2>3. SettingOf(m.r.action) = set /\ m.after = device'
    BY <1>1, <1>3
  <2> QED
    BY <1>2, <1>4, <2>1, <2>2, <2>3, StandsOn DEF DesktopInv
<1>8. clipWork' # NoDeskWork => ClipWorkOK(clipWork)'
  BY <1>2, BoardKept, ClipKept
<1>9. IsSequence(deskReplies)'
  BY <1>6 DEF DeskRepliesOK
<1> QED
  BY <1>4, <1>6, <1>7, <1>8, <1>9 DEF DesktopInv

\* A request that is refused tells nothing.
LEMMA SysRefuses ==
  ASSUME DesktopInv, ~SysIdle, desktop' = desktop, clipWork' = clipWork, knobs' = knobs,
         givenUp' = givenUp, SysEnds(DeskRefused),
         IsDevice(device)', PanelStaysLit',
         \A f \in Settings \ {SettingOf(sysWork.r.action)} : device'[f] = device[f]
  PROVE  DesktopInv'
<1>1. PICK reply : reply = DeskRefused
  OBVIOUS
<1>2. DeskRefused # DeskGivenUp /\ ~DeskRefused.ok
  BY DEF DeskRefused, DeskGivenUp
<1>3. \A m, late : m.reply = reply => ReplyTold(m, late)
  BY <1>1, <1>2 DEF ReplyTold
<1>4. SysEnds(reply)
  BY <1>1
<1>5. RepliesGoOn
  BY DEF SysEnds, DeskTold, RepliesGoOn
<1>6. GivenUpKnown'
  BY <1>5, GivenUpKept DEF DesktopInv
<1> QED
  BY <1>3, <1>4, <1>6, SysAnswers

LEMMA SysStepKeeps ==
  ASSUME DesktopInv, SysStep
  PROVE  DesktopInv'
<1>1. /\ ~SysIdle /\ ~Delegated /\ device' = Effect(SysNext, sysWork.r.arg)
      /\ desktop' = desktop /\ givenUp' = givenUp /\ clipWork' = clipWork /\ knobs' = knobs
  BY DEF SysStep
<1>2. IF Len(sysWork.todo) = 1
      THEN SysEnds(SysReply(sysWork.r, SeenAfter))
      ELSE /\ sysWork' = [sysWork EXCEPT !.todo = Tail(@), !.seen = SeenAfter]
           /\ deskReplies' = deskReplies
  BY DEF SysStep, SeenAfter
<1>3. SysWorkOK(sysWork, device)
  BY <1>1, SysFields
<1>4. /\ IsDevice(device)' /\ PanelStaysLit'
      /\ \A f \in Settings \ {SettingOf(sysWork.r.action)} : device'[f] = device[f]
  BY <1>1, StepActs
<1>5. CASE Len(sysWork.todo) = 1
  <2>1. PICK reply : reply = SysReply(sysWork.r, SeenAfter)
    OBVIOUS
  <2>2. SysEnds(reply)
    BY <1>2, <1>5, <2>1
  <2>3. \A m : m.r = sysWork.r /\ m.reply = reply /\ m.alone = sysWork.alone
               /\ m.before = sysWork.before => ReplyTold(m, Late(m.r.action))
    BY <1>1, <1>5, <2>1, SysReplyTold
  <2>4. RepliesGoOn
    BY <2>2 DEF SysEnds, DeskTold, RepliesGoOn
  <2>5. GivenUpKnown'
    BY <1>1, <2>4, GivenUpKept DEF DesktopInv
  <2> QED
    BY <1>1, <1>4, <2>2, <2>3, <2>5, SysAnswers
<1>6. CASE Len(sysWork.todo) # 1
  <2>1. PICK w, tail, seen : w = Moved /\ tail = Tail(sysWork.todo) /\ seen = SeenAfter
    OBVIOUS
  <2>2. w = [r |-> sysWork.r, todo |-> tail, seen |-> seen,
             before |-> sysWork.before, alone |-> sysWork.alone]
    BY <2>1 DEF Moved
  <2>3. sysWork' = w
    <3>1. sysWork = [r |-> sysWork.r, todo |-> sysWork.todo, seen |-> sysWork.seen,
                     before |-> sysWork.before, alone |-> sysWork.alone]
      BY <1>3 DEF SysWorkOK
    <3>2. sysWork' = [sysWork EXCEPT !.todo = tail, !.seen = seen]
      BY <1>2, <1>6, <2>1
    <3>3. sysWork' = [r |-> sysWork.r, todo |-> tail, seen |-> seen,
                      before |-> sysWork.before, alone |-> sysWork.alone]
      BY <3>1, <3>2
    <3> QED
      BY <2>2, <3>3
  <2>4. tail \in Seq(DeskSteps) /\ tail # <<>> /\ \A i \in DOMAIN tail : Allowed(tail[i], sysWork.r)
    <3>1. Behind(tail, sysWork.todo)
      BY <1>1, <2>1, StepLeft
    <3> QED
      BY <1>3, <1>6, <3>1 DEF Behind, SysWorkOK
  <2>5. w.r.action \in Reported => OnCourse(w, device', SettingOf(w.r.action))
    <3> SUFFICES ASSUME w.r.action \in Reported
                 PROVE  OnCourse(w, device', SettingOf(w.r.action))
      OBVIOUS
    <3>1. PICK f : f = SettingOf(sysWork.r.action)
      OBVIOUS
    <3>2. w.r = sysWork.r
      BY <2>2
    <3>3. OnCourse(w, device', f)
      BY <1>1, <2>1, <3>1, <3>2, CourseKept
    <3> QED
      BY <3>1, <3>2, <3>3
  <2>6. w.r.action \in ProfileActions => ProfileCourse(w, device')
    <3>1. w.r = sysWork.r
      BY <2>2
    <3> QED
      BY <1>1, <2>1, <3>1, ProfileKept
  <2>7. SysWorkOK(w, device')
    BY <1>3, <2>2, <2>4, <2>5, <2>6 DEF SysWorkOK
  <2>8. w.r = sysWork.r
    BY <2>2
  <2> QED
    BY <1>1, <1>2, <1>4, <1>6, <2>3, <2>7, <2>8, SysGoesOn
<1> QED
  BY <1>5, <1>6

\* A step for another that sets and reads the same.
LEMMA SysDelegatesKeeps ==
  ASSUME DesktopInv, SysDelegates
  PROVE  DesktopInv'
<1>1. /\ ~SysIdle /\ SysNext = "write brightness" /\ ~Panel.writable
      /\ sysWork' = [sysWork EXCEPT !.todo = <<"brightnessctl">> \o Tail(@)]
      /\ desktop' = desktop /\ device' = device /\ givenUp' = givenUp /\ clipWork' = clipWork
      /\ knobs' = knobs /\ deskReplies' = deskReplies
  BY DEF SysDelegates, Delegated
<1>2. SysWorkOK(sysWork, device) /\ Allowed(SysNext, sysWork.r)
  BY <1>1, SysFields
<1>3. PICK todo : todo = sysWork.todo
  OBVIOUS
<1>4. PICK tail : tail = Tail(todo)
  OBVIOUS
<1>5. PICK new : new = <<"brightnessctl">> \o tail
  OBVIOUS
<1>6. todo \in Seq(DeskSteps) /\ todo # <<>> /\ todo[1] = SysNext
  BY <1>1, <1>3, SysFields DEF SysWorkOK
<1>7. /\ tail \in Seq(DeskSteps) /\ DOMAIN tail = 1..Len(todo) - 1 /\ DOMAIN todo = 1..Len(todo)
      /\ Len(todo) \in Nat /\ Len(todo) > 0
      /\ \A i \in DOMAIN tail : i + 1 \in DOMAIN todo /\ tail[i] = todo[i + 1]
  <2>1. Behind(tail, todo)
    BY <1>1, <1>3, <1>4, StepLeft
  <2> QED
    BY <2>1 DEF Behind
<1>8. /\ new \in Seq(DeskSteps) /\ DOMAIN new = DOMAIN todo /\ new[1] = "brightnessctl"
      /\ \A i \in DOMAIN todo : i # 1 => new[i] = todo[i]
  <2>1. PICK one : one = <<"brightnessctl">>
    OBVIOUS
  <2>2. "brightnessctl" \in DeskSteps
    BY DEF DeskSteps
  <2>3. one \in Seq(DeskSteps) /\ DOMAIN one = {1} /\ one[1] = "brightnessctl"
    BY <2>1, <2>2, OneStep
  <2>4. Len(one) = 1
    BY <2>1
  <2>5. /\ one \o tail \in Seq(DeskSteps) /\ Len(one \o tail) = Len(one) + Len(tail)
        /\ \A i \in 1..Len(one) + Len(tail) :
             (one \o tail)[i] = IF i <= Len(one) THEN one[i] ELSE tail[i - Len(one)]
    BY <1>7, <2>3, Concatenated
  <2>6. Len(tail) = Len(todo) - 1
    BY <1>4, <1>6
  <2>7. new = one \o tail
    BY <1>5, <2>1
  <2>8. /\ new \in Seq(DeskSteps) /\ Len(new) = Len(todo)
        /\ \A i \in 1..Len(todo) : new[i] = IF i <= 1 THEN one[i] ELSE tail[i - 1]
    <3>1. PICK len \in Nat : len = Len(todo)
      BY <1>7
    <3>2. 1 + (len - 1) = len
      BY <3>1
    <3>3. /\ new \in Seq(DeskSteps) /\ Len(new) = 1 + (len - 1)
          /\ \A i \in 1..1 + (len - 1) : new[i] = IF i <= 1 THEN one[i] ELSE tail[i - 1]
      BY <2>4, <2>5, <2>6, <2>7, <3>1, Zenon
    <3> QED
      BY <3>1, <3>2, <3>3
  <2>9. DOMAIN new = 1..Len(todo) /\ 1 \in 1..Len(todo)
    BY <1>7, <2>8
  <2>10. ASSUME NEW i \in DOMAIN todo, i # 1
         PROVE  new[i] = todo[i]
    <3>1. i - 1 \in DOMAIN tail /\ (i - 1) + 1 = i /\ ~(i <= 1)
      BY <1>7, <2>10
    <3> QED
      BY <1>7, <2>8, <3>1
  <2> QED
    BY <1>7, <2>3, <2>8, <2>9, <2>10
<1>9. \A i \in DOMAIN todo : Sets(new[i]) = Sets(todo[i]) /\ Reads(new[i]) = Reads(todo[i])
  <2>1. /\ Sets("brightnessctl") = Sets("write brightness")
        /\ Reads("brightnessctl") = Reads("write brightness")
    BY DEF Sets, Reads
  <2> QED
    BY <1>1, <1>6, <1>8, <2>1
<1>10. \A i \in DOMAIN new : Allowed(new[i], sysWork.r)
  BY <1>1, <1>2, <1>3, <1>8, <1>9 DEF Allowed, SysWorkOK
<1>11. new # <<>>
  BY <1>7, <1>8
<1>12. sysWork' = [r |-> sysWork.r, todo |-> new, seen |-> sysWork.seen,
                   before |-> sysWork.before, alone |-> sysWork.alone]
  <2>1. sysWork = [r |-> sysWork.r, todo |-> sysWork.todo, seen |-> sysWork.seen,
                   before |-> sysWork.before, alone |-> sysWork.alone]
    BY <1>2 DEF SysWorkOK
  <2>2. sysWork' = [sysWork EXCEPT !.todo = new]
    BY <1>1, <1>3, <1>4, <1>5
  <2> QED
    BY <2>1, <2>2
<1>13. PICK w : /\ w = [r |-> sysWork.r, todo |-> new, seen |-> sysWork.seen,
                        before |-> sysWork.before, alone |-> sysWork.alone]
                /\ sysWork' = w
  BY <1>12
<1>14. ASSUME w.r.action \in Reported
       PROVE  OnCourse(w, device, SettingOf(w.r.action))
  <2>1. PICK f : f = SettingOf(w.r.action)
    OBVIOUS
  <2>2. OnCourse(sysWork, device, f)
    BY <1>2, <1>13, <1>14, <2>1 DEF SysWorkOK
  <2>3. Orderly(new, f)
    BY <1>3, <1>8, <1>9, <2>2 DEF Orderly, OnCourse
  <2>4. (\E i \in DOMAIN new : f \in Sets(new[i])) <=> \E i \in DOMAIN todo : f \in Sets(todo[i])
    BY <1>8, <1>9
  <2>5. (\E i \in DOMAIN new : f \in Reads(new[i])) <=> \E i \in DOMAIN todo : f \in Reads(todo[i])
    BY <1>8, <1>9
  <2>6. w.todo = new /\ w.seen = sysWork.seen /\ w.before = sysWork.before /\ w.r = sysWork.r
        /\ w.alone = sysWork.alone /\ InPlace(w) = InPlace(sysWork)
    BY <1>13 DEF InPlace
  <2> QED
    BY <1>3, <2>1, <2>2, <2>3, <2>4, <2>5, <2>6 DEF OnCourse
<1>15. w.r.action \notin ProfileActions
  <2>1. SettingOf(sysWork.r.action) = "raw"
    BY <1>1, <1>2 DEF Allowed, Sets
  <2> QED
    BY <1>13, <2>1 DEF SettingOf, ProfileActions
<1>16. SysWorkOK(w, device')
  BY <1>1, <1>2, <1>8, <1>10, <1>11, <1>13, <1>14, <1>15 DEF SysWorkOK
<1>17. IsDevice(device)' /\ PanelStaysLit' /\ w.r = sysWork.r
  BY <1>1, <1>13 DEF DesktopInv, IsDevice, LastHeard, PanelStaysLit
<1> QED
  BY <1>1, <1>13, <1>16, <1>17, SysGoesOn

LEMMA SysFailsKeeps ==
  ASSUME DesktopInv, SysFails
  PROVE  DesktopInv'
<1>1. /\ ~SysIdle /\ ~Delegated /\ device' \in {device, Effect(SysNext, sysWork.r.arg)}
      /\ desktop' = desktop /\ givenUp' = givenUp /\ clipWork' = clipWork /\ knobs' = knobs
  BY DEF SysFails
<1>2. SysWorkOK(sysWork, device) /\ Allowed(SysNext, sysWork.r) /\ sysWork.r.action \in SysActions
  BY <1>1, SysFields
<1>3. /\ IsDevice(device)' /\ PanelStaysLit'
      /\ \A f \in Settings \ {SettingOf(sysWork.r.action)} : device'[f] = device[f]
  <2>1. CASE device' = device
    BY <1>1, <2>1 DEF DesktopInv, IsDevice, LastHeard, PanelStaysLit
  <2>2. CASE device' = Effect(SysNext, sysWork.r.arg)
    BY <1>1, <2>2, StepActs
  <2> QED
    BY <1>1, <2>1, <2>2
<1>4. CASE SysNext = "ScreenSaver.Lock"
  <2>1. sysWork' = [sysWork EXCEPT !.todo = <<"loginctl">>] /\ deskReplies' = deskReplies
    BY <1>4 DEF SysFails
  <2>2. PICK new : new = <<"loginctl">>
    OBVIOUS
  <2>3. new \in Seq(DeskSteps) /\ new # <<>> /\ DOMAIN new = {1} /\ new[1] = "loginctl"
    <3>1. "loginctl" \in DeskSteps
      BY DEF DeskSteps
    <3> QED
      BY <2>2, <3>1, OneStep
  <2>4. PICK w : /\ w = [r |-> sysWork.r, todo |-> new, seen |-> sysWork.seen,
                         before |-> sysWork.before, alone |-> sysWork.alone]
                 /\ sysWork' = w
    <3>1. sysWork = [r |-> sysWork.r, todo |-> sysWork.todo, seen |-> sysWork.seen,
                     before |-> sysWork.before, alone |-> sysWork.alone]
      BY <1>2 DEF SysWorkOK
    <3>2. sysWork' = [sysWork EXCEPT !.todo = new]
      BY <2>1, <2>2
    <3>3. sysWork' = [r |-> sysWork.r, todo |-> new, seen |-> sysWork.seen,
                      before |-> sysWork.before, alone |-> sysWork.alone]
      BY <3>1, <3>2
    <3> QED
      BY <3>3
  <2>5. SettingOf(sysWork.r.action) = "locked"
    BY <1>2, <1>4 DEF Allowed, Sets
  <2>6. w.r.action \notin Reported /\ w.r.action \notin ProfileActions
    BY <2>4, <2>5 DEF SettingOf, Reported, ProfileActions
  <2>7. \A i \in DOMAIN new : Allowed(new[i], sysWork.r)
    BY <2>3, <2>5 DEF Allowed, Sets
  <2>8. SysWorkOK(w, device') /\ w.r = sysWork.r
    BY <1>2, <2>3, <2>4, <2>6, <2>7 DEF SysWorkOK
  <2> QED
    BY <1>1, <1>3, <2>1, <2>4, <2>8, SysGoesOn
<1>5. CASE SysNext # "ScreenSaver.Lock"
  <2>1. SysEnds(DeskRefused)
    BY <1>5 DEF SysFails
  <2> QED
    BY <1>1, <1>3, <2>1, SysRefuses
<1> QED
  BY <1>4, <1>5

\* A command that is given up is left running, and its request says so.
LEMMA SysTimesOutKeeps ==
  ASSUME DesktopInv, SysTimesOut
  PROVE  DesktopInv'
<1>1. /\ ~SysIdle /\ device' = device /\ SysEnds(DeskGivenUp) /\ givenUp' = LeftRunning
      /\ desktop' = desktop /\ clipWork' = clipWork /\ knobs' = knobs
  BY DEF SysTimesOut
<1>2. IsDevice(device)' /\ PanelStaysLit'
  BY <1>1 DEF DesktopInv, IsDevice, LastHeard, PanelStaysLit
<1>3. SysWorkOK(sysWork, device) /\ Allowed(SysNext, sysWork.r)
  BY <1>1, SysFields
<1>4. PICK reply : reply = DeskGivenUp
  OBVIOUS
<1>5. \A m : m.r = sysWork.r /\ m.reply = reply /\ m.alone = sysWork.alone
             /\ m.before = sysWork.before => ReplyTold(m, Late(m.r.action))
  <2>1. sysWork.r.action = "sys_brightness_set" => sysWork.r.arg \in 0..100
    BY <1>3 DEF SysWorkOK, ValidArgument
  <2>2. ~DeskGivenUp.ok
    BY DEF DeskGivenUp
  <2> QED
    BY <1>4, <2>1, <2>2 DEF ReplyTold
<1>6. RepliesGoOn /\ IsSequence(deskReplies)
  BY <1>1 DEF SysEnds, DeskTold, RepliesGoOn, DesktopInv
<1>7. \A c \in givenUp : CommandOK(c, deskReplies)'
  BY <1>1, <1>6, CommandKept DEF DesktopInv, GivenUpKnown
<1>8. PICK c : c = Abandoned
  OBVIOUS
<1>9. ASSUME SysNext \in Setters
      PROVE  CommandOK(c, deskReplies)'
  <2>1. PICK old, new, m :
          /\ old = deskReplies /\ new = deskReplies'
          /\ new = Append(old, m) /\ m.r = sysWork.r /\ m.reply = DeskGivenUp
    BY <1>1 DEF SysEnds, DeskTold
  <2>2. PICK n \in Nat : n = Len(old) /\ DOMAIN old = 1..n /\ IsSequence(old)
    BY <1>6, <2>1, SequenceDomain
  <2>3. IsSequence(new) /\ Len(new) = n + 1 /\ new[n + 1] = m
    BY <2>1, <2>2, SequenceAppend
  <2>4. DOMAIN new = 1..n + 1 /\ n + 1 \in 1..n + 1
    BY <2>3, SequenceDomain
  <2>5. c.step = SysNext /\ c.arg = sysWork.r.arg /\ c.by = n + 1
    BY <1>8, <2>1, <2>2 DEF Abandoned
  <2>6. Sets(SysNext) = {SettingOf(sysWork.r.action)}
    <3>1. Sets(SysNext) # {}
      BY <1>9 DEF Setters, Sets
    <3> QED
      BY <1>3, <3>1 DEF Allowed
  <2>7. "raw" \in Sets(SysNext) =>
          sysWork.r.arg \in 0..100 /\ desktop.panel # {} /\ ~Panel.writable
    <3>1. "raw" \in Sets(SysNext) => SysNext = "brightnessctl"
      BY <1>9 DEF Sets, Setters
    <3> QED
      BY <1>1, <3>1, SysFields DEF Allowed
  <2>8. CommandOK(c, new)
    BY <1>9, <2>1, <2>3, <2>4, <2>5, <2>6, <2>7 DEF CommandOK
  <2>9. CommandOK(c, new)'
    BY <1>1, <2>8, PanelStays
  <2> QED
    BY <2>1, <2>9 DEF CommandOK
<1>10. GivenUpKnown'
  <2>1. givenUp' = IF SysNext \in Setters THEN givenUp \cup {c} ELSE givenUp
    BY <1>1, <1>8 DEF LeftRunning
  <2> QED
    BY <1>7, <1>9, <2>1 DEF GivenUpKnown
<1> QED
  BY <1>1, <1>2, <1>4, <1>5, <1>10, SysAnswers

\* A request that is not touched knows on what holds of the devices now.
LEMMA SysKept ==
  ASSUME DesktopInv, sysWork' = sysWork, desktop' = desktop, RepliesGoOn,
         sysWork # NoDeskWork => SysWorkOK(sysWork, device')
  PROVE  sysWork' # NoDeskWork => SysWorkOK(sysWork, device)'
<1> SUFFICES ASSUME sysWork' # NoDeskWork PROVE SysWorkOK(sysWork, device)'
  OBVIOUS
<1>1. PICK w : w = sysWork
  OBVIOUS
<1>2. sysWork' = w /\ SysWorkOK(w, device') /\ IsSequence(deskReplies)
  BY <1>1 DEF DesktopInv
<1> QED
  BY <1>2, WorkCarried

\* A step of the clipboard leaves system alone.
LEMMA SysAside ==
  ASSUME DesktopInv, sysWork' = sysWork, desktop' = desktop, RepliesGoOn,
         \A f \in DeviceFields \ {"board"} : device'[f] = device[f]
  PROVE  sysWork' # NoDeskWork => SysWorkOK(sysWork, device)'
<1>1. PICK w, d, e : w = sysWork /\ d = device /\ e = device'
  OBVIOUS
<1>2. /\ \A f \in Settings \ {"board"} : e[f] = d[f]
      /\ e["known"] = d["known"] /\ e["coming"] = d["coming"]
  BY <1>1 DEF Settings, DeviceFields
<1>3. sysWork # NoDeskWork => SysWorkOK(w, d)
  BY <1>1 DEF DesktopInv
<1>4. sysWork # NoDeskWork => SysWorkOK(w, e)
  BY <1>2, <1>3, CourseStays
<1> QED
  BY <1>1, <1>4, SysKept

LEMMA SysAskKeeps ==
  ASSUME DesktopInv, NEW r \in SysRequests, SysAsk(r)
  PROVE  DesktopInv'
<1>1. /\ SysIdle /\ device' = device
      /\ desktop' = desktop /\ givenUp' = givenUp /\ clipWork' = clipWork /\ knobs' = knobs
  BY DEF SysAsk
<1>2. SettingOf("none") = "nothing"
  BY DEF SettingOf
<1>3. sysWork = NoDeskWork /\ SettingOf(sysWork.r.action) = "nothing"
  BY <1>1, <1>2 DEF SysIdle, NoDeskWork
<1>4. IsDevice(device)' /\ PanelStaysLit'
  BY <1>1 DEF DesktopInv, IsDevice, LastHeard, PanelStaysLit
<1>5. RepliesGoOn /\ IsSequence(deskReplies)
  BY DEF SysAsk, DeskTold, RepliesGoOn, DesktopInv
<1>6. GivenUpKnown'
  BY <1>1, <1>5, GivenUpKept DEF DesktopInv
<1>7. clipWork' # NoDeskWork => ClipWorkOK(clipWork)'
  BY <1>1, ClipKept
<1>8. \A f \in Settings : ServesSetting(f) => ServesSetting(f)'
  <2>1. "nothing" \notin Settings
    BY DEF Settings
  <2> QED
    BY <1>1, <1>3, <2>1 DEF ServesSetting
<1>9. CASE ValidArgument(r) /\ Supports(r.action)
  <2>1. PICK todo : todo = StepsOf(r)
    OBVIOUS
  <2>2. GoodSteps(todo, r)
    BY <2>1, StepsInOrder
  <2>3. PICK d : d = device /\ IsDevice(d)
    BY DEF DesktopInv
  <2>4. PICK w : /\ w = [r |-> r, todo |-> todo, seen |-> <<>>, before |-> d, alone |-> TRUE]
                 /\ sysWork' = w /\ deskReplies' = deskReplies
    BY <1>9, <2>1, <2>3 DEF SysAsk
  <2>5. ASSUME r.action \in Reported
        PROVE  OnCourse(w, d, SettingOf(r.action))
    <3>1. PICK f : f = SettingOf(r.action)
      OBVIOUS
    <3>2. Orderly(todo, f) /\ \E i \in DOMAIN todo : f \in Sets(todo[i])
      BY <2>2, <2>5, <3>1 DEF GoodSteps
    <3>3. \E j \in DOMAIN todo : f \in Reads(todo[j])
      BY <3>2 DEF Orderly
    <3> QED
      BY <2>4, <3>1, <3>2, <3>3 DEF OnCourse
  <2>6. ASSUME r.action \in ProfileActions
        PROVE  ProfileCourse(w, d)
    <3>1. d.known \in Showable(d) /\ \A i \in DOMAIN d.coming : d.coming[i] \in Showable(d)
      <4>1. CASE d.coming = <<>>
        <5>1. DOMAIN d.coming = {}
          BY <4>1, EmptySequence
        <5> QED
          BY <2>3, <4>1, <5>1 DEF Showable, IsDevice, LastHeard
      <4>2. CASE d.coming # <<>>
        BY <4>2 DEF Showable, Range
      <4> QED
        BY <4>1, <4>2
    <3>2. \E j \in DOMAIN todo : todo[j] = "profile"
      BY <2>2, <2>6 DEF GoodSteps
    <3> QED
      BY <2>4, <3>1, <3>2 DEF ProfileCourse, ToShow
  <2>7. SysWorkOK(w, d)
    BY <1>9, <2>2, <2>3, <2>4, <2>5, <2>6 DEF SysWorkOK, GoodSteps
  <2>8. SysWorkOK(w, device')
    BY <1>1, <2>3, <2>7
  <2>9. SysWorkOK(sysWork, device)'
    BY <1>1, <1>5, <2>4, <2>8, WorkCarried
  <2>10. DeskRepliesOK'
    BY <1>1, <2>4, RepliesKept DEF DesktopInv
  <2>11. SettingsStand'
    <3>1. PICK set : set = "nothing" /\ set \notin Settings
      BY DEF Settings
    <3>2. \A f \in Settings \ {set} : device'[f] = device[f]
      BY <1>1
    <3>3. \A f \in Settings \ {set} : ServesSetting(f) => ServesSetting(f)'
      BY <1>8
    <3> QED
      BY <1>1, <1>5, <2>4, <3>1, <3>2, <3>3, StandsOn DEF DesktopInv
  <2> QED
    BY <1>1, <1>4, <1>5, <1>6, <1>7, <2>4, <2>9, <2>10, <2>11 DEF DesktopInv
<1>10. CASE ~(ValidArgument(r) /\ Supports(r.action))
  <2>1. sysWork' = sysWork /\ DeskTold([r |-> r, alone |-> TRUE], DeskRefused)
    BY <1>10 DEF SysAsk
  <2>2. PICK m : deskReplies' = Append(deskReplies, m) /\ m.r = r /\ m.reply = DeskRefused
                 /\ m.after = device'
    BY <2>1 DEF DeskTold
  <2>3. ReplyTold(m, Late(m.r.action))
    <3>1. DeskRefused # DeskGivenUp /\ ~DeskRefused.ok
      BY DEF DeskRefused, DeskGivenUp
    <3> QED
      BY <2>2, <3>1 DEF ReplyTold
  <2>4. DeskRepliesOK'
    BY <1>1, <2>2, <2>3, RepliesGrow DEF DesktopInv
  <2>5. SettingsStand'
    <3>1. PICK set : set = SettingOf(r.action)
      OBVIOUS
    <3>2. \A f \in Settings \ {set} : device'[f] = device[f]
      BY <1>1
    <3>3. \A f \in Settings \ {set} : ServesSetting(f) => ServesSetting(f)'
      BY <1>8
    <3>4. SettingOf(m.r.action) = set
      BY <2>2, <3>1
    <3> QED
      BY <1>1, <1>5, <2>2, <3>2, <3>3, <3>4, StandsOn DEF DesktopInv
  <2>6. sysWork' = NoDeskWork
    BY <1>3, <2>1
  <2>7. IsSequence(deskReplies)'
    BY <2>4 DEF DeskRepliesOK
  <2> QED
    BY <1>1, <1>4, <1>6, <1>7, <2>4, <2>5, <2>6, <2>7 DEF DesktopInv
<1> QED
  BY <1>9, <1>10

LEMMA Disturbed ==
  ASSUME NEW a, NEW b, NEW c, NEW d, NEW e, NEW w,
         w = [r |-> a, todo |-> b, seen |-> c, before |-> d, alone |-> e]
  PROVE  [w EXCEPT !.alone = FALSE] = [r |-> a, todo |-> b, seen |-> c, before |-> d, alone |-> FALSE]
<1>1. PICK x : x = FALSE
  OBVIOUS
<1>2. [w EXCEPT !.alone = x] = [r |-> a, todo |-> b, seen |-> c, before |-> d, alone |-> x]
  OBVIOUS
<1> QED
  BY <1>1, <1>2, Zenon

\* Of a request that was disturbed only the steps count, whatever the devices.
LEMMA DisturbedWork ==
  ASSUME NEW w, NEW new, NEW d, NEW e, SysWorkOK(w, d),
         new = [r |-> w.r, todo |-> w.todo, seen |-> w.seen, before |-> w.before, alone |-> FALSE]
  PROVE  SysWorkOK(new, e)
<1>1. /\ new.r = w.r /\ new.todo = w.todo /\ new.seen = w.seen /\ new.before = w.before
      /\ ~new.alone /\ new.alone \in BOOLEAN
  OBVIOUS
<1>2. \A f : OnCourse(w, d, f) => OnCourse(new, e, f)
  BY <1>1, Zenon DEF OnCourse
<1>3. ProfileCourse(w, d) => ProfileCourse(new, e)
  BY <1>1, Zenon DEF ProfileCourse
<1>4. new = [r |-> new.r, todo |-> new.todo, seen |-> new.seen, before |-> new.before, alone |-> new.alone]
  OBVIOUS
<1> QED
  BY <1>1, <1>2, <1>3, <1>4 DEF SysWorkOK

\* The user changes the devices: nothing is known of them any more.
LEMMA UserActsKeeps ==
  ASSUME DesktopInv, UserActs
  PROVE  DesktopInv'
<1>1. /\ desktop' = desktop /\ deskReplies' = deskReplies /\ givenUp' = givenUp /\ knobs' = knobs + 1
      /\ sysWork' = Disturbs(sysWork) /\ clipWork' = Disturbs(clipWork)
  BY DEF UserActs
<1>2. knobs' \in Nat /\ SettingsStand'
  BY <1>1 DEF DesktopInv, SettingsStand
<1>3. RepliesGoOn /\ IsSequence(deskReplies)
  BY <1>1 DEF RepliesGoOn, DesktopInv
<1>4. GivenUpKnown' /\ DeskRepliesOK'
  BY <1>1, <1>3, GivenUpKept, RepliesKept DEF DesktopInv
<1>5. IsDevice(device')
      /\ device'["raw"] = device["raw"]
  <2>1. PICK e : e = device'
    OBVIOUS
  <2>2. CASE e = [device EXCEPT !.volume = 150, !.muted = ~@]
    <3>1. PICK d : d = device /\ IsDevice(d)
      BY DEF DesktopInv
    <3>2. PICK muted \in BOOLEAN : e = [d EXCEPT !.volume = 150, !.muted = muted]
      <4>1. d.muted \in BOOLEAN
        BY <3>1 DEF IsDevice
      <4> QED
        BY <2>2, <3>1, <4>1, Zenon
    <3>3. PICK F : F = DeviceFields /\ "volume" \in F /\ "muted" \in F
      <4>1. "volume" \in DeviceFields /\ "muted" \in DeviceFields
        BY DEF DeviceFields
      <4> QED
        BY <4>1
    <3>4. /\ e = [f \in DeviceFields |-> e[f]] /\ e["muted"] \in BOOLEAN
          /\ \A f \in DeviceFields \ {"volume", "muted"} : e[f] = d[f]
      <4>1. d = [f \in F |-> d[f]]
        BY <3>1, <3>3 DEF IsDevice
      <4>2. /\ e = [f \in F |-> e[f]] /\ e["muted"] = muted
            /\ \A f \in F \ {"volume", "muted"} : e[f] = d[f]
        <5>1. e = Twice(d, "volume", 150, "muted", muted)
          BY <3>2 DEF Twice
        <5> QED
          BY <3>3, <4>1, <5>1, TwoSet
      <4> QED
        BY <3>3, <4>2
    <3>5. /\ e["raw"] = d["raw"] /\ e["board"] = d["board"] /\ e["profile"] = d["profile"]
          /\ e["known"] = d["known"] /\ e["coming"] = d["coming"]
      BY <3>4 DEF DeviceFields
    <3> QED
      BY <2>1, <3>1, <3>4, <3>5 DEF IsDevice, LastHeard
  <2>3. CASE e = DaemonSets("performance")
    <3>1. PICK profile : profile = "performance"
      OBVIOUS
    <3>2. IsDevice(e) /\ \A g \in Settings \ {"profile"} : e[g] = device[g]
      BY <2>3, <3>1, ProfileSet DEF DesktopInv
    <3>3. "raw" \in Settings \ {"profile"}
      BY DEF Settings
    <3> QED
      BY <2>1, <3>2, <3>3
  <2>4. ASSUME NEW text \in Foreign, e = [device EXCEPT !.board = text]
        PROVE  IsDevice(e) /\ e["raw"] = device["raw"]
    <3>1. e = Changed("board", text) /\ text.size \in Nat
      BY <2>4 DEF Changed, Foreign
    <3>2. IsDevice(device) /\ "board" \in Settings \ {"profile"} /\ "raw" \in DeviceFields \ {"board"}
      BY DEF DesktopInv, Settings, DeviceFields
    <3> QED
      BY <3>1, <3>2, FieldSet
  <2> QED
    BY <2>1, <2>2, <2>3, <2>4 DEF UserActs
<1>6. IsDevice(device)' /\ PanelStaysLit'
  BY <1>1, <1>5 DEF DesktopInv, IsDevice, LastHeard, PanelStaysLit
<1>7. sysWork' # NoDeskWork => SysWorkOK(sysWork, device)'
  <2> SUFFICES ASSUME sysWork' # NoDeskWork PROVE SysWorkOK(sysWork, device)'
    OBVIOUS
  <2>1. sysWork # NoDeskWork /\ sysWork' = [sysWork EXCEPT !.alone = FALSE]
    BY <1>1 DEF Disturbs
  <2>2. SysWorkOK(sysWork, device)
    BY <2>1 DEF DesktopInv
  <2>3. PICK w : /\ w = [r |-> sysWork.r, todo |-> sysWork.todo, seen |-> sysWork.seen,
                         before |-> sysWork.before, alone |-> FALSE]
                 /\ sysWork' = w
    <3>1. PICK old : old = sysWork
      OBVIOUS
    <3>2. old = [r |-> old.r, todo |-> old.todo, seen |-> old.seen,
                 before |-> old.before, alone |-> old.alone]
      BY <2>2, <3>1 DEF SysWorkOK
    <3>3. [old EXCEPT !.alone = FALSE] = [r |-> old.r, todo |-> old.todo, seen |-> old.seen,
                                          before |-> old.before, alone |-> FALSE]
      BY <3>2, Disturbed
    <3> QED
      BY <2>1, <3>1, <3>3
  <2>4. SysWorkOK(w, device')
    BY <2>2, <2>3, DisturbedWork
  <2> QED
    BY <1>1, <1>3, <2>3, <2>4, WorkCarried
<1>8. clipWork' # NoDeskWork => ClipWorkOK(clipWork)'
  <2> SUFFICES ASSUME clipWork' # NoDeskWork PROVE ClipWorkOK(clipWork)'
    OBVIOUS
  <2>1. clipWork # NoDeskWork /\ clipWork' = [clipWork EXCEPT !.alone = FALSE]
    BY <1>1 DEF Disturbs
  <2>2. ClipWorkOK(clipWork)
    BY <2>1 DEF DesktopInv
  <2>3. clipWork' = [r |-> clipWork.r, tools |-> clipWork.tools, at |-> clipWork.at,
                     fed |-> clipWork.fed, out |-> clipWork.out, alone |-> FALSE]
    <3>1. clipWork = [r |-> clipWork.r, tools |-> clipWork.tools, at |-> clipWork.at,
                     fed |-> clipWork.fed, out |-> clipWork.out, alone |-> clipWork.alone]
      BY <2>2 DEF ClipWorkOK
    <3> QED
      BY <2>1, <3>1
  <2> QED
    BY <2>2, <2>3 DEF ClipWorkOK
<1>9. IsSequence(deskReplies)'
  BY <1>1, <1>3
<1> QED
  BY <1>1, <1>2, <1>4, <1>6, <1>7, <1>8, <1>9 DEF DesktopInv

\* zbus hears of a change of the profile: only what is known of it changes.
LEMMA ProfileHeardKeeps ==
  ASSUME DesktopInv, ProfileHeard
  PROVE  DesktopInv'
<1>1. /\ desktop' = desktop /\ deskReplies' = deskReplies /\ givenUp' = givenUp /\ knobs' = knobs
      /\ sysWork' = sysWork /\ clipWork' = clipWork
  BY DEF ProfileHeard
<1>2. PICK d, e, old, new :
        /\ d = device /\ e = device' /\ IsDevice(d) /\ old = d.coming /\ old # <<>> /\ new = Tail(old)
        /\ e = [d EXCEPT !.known = Head(old), !.coming = new]
  BY DEF ProfileHeard, DesktopInv
<1>3. PICK n \in Nat : n = Len(old) /\ DOMAIN old = 1..n /\ IsSequence(old)
  BY <1>2, SequenceDomain DEF IsDevice, LastHeard
<1>4. /\ IsSequence(new) /\ n >= 1 /\ Len(new) = n - 1 /\ Head(old) = old[1]
      /\ \A i \in 1..n - 1 : new[i] = old[i + 1]
  BY <1>2, <1>3, SequenceTail
<1>5. DOMAIN new = 1..n - 1 /\ \A i \in 1..n - 1 : i + 1 \in 1..n
  BY <1>3, <1>4, SequenceDomain
<1>6. /\ e = [f \in DeviceFields |-> e[f]] /\ e["known"] = old[1] /\ e["coming"] = new
      /\ \A f \in DeviceFields \ {"known", "coming"} : e[f] = d[f]
  <2>1. d = [f \in DeviceFields |-> d[f]]
    BY <1>2 DEF IsDevice
  <2>2. PICK F, head : F = DeviceFields /\ "known" \in F /\ "coming" \in F /\ head = Head(old)
    <3>1. "known" \in DeviceFields /\ "coming" \in DeviceFields
      BY DEF DeviceFields
    <3> QED
      BY <3>1
  <2>3. e = Twice(d, "known", head, "coming", new) /\ d = [f \in F |-> d[f]]
    BY <1>2, <2>1, <2>2 DEF Twice
  <2>4. /\ e = [f \in F |-> e[f]] /\ e["known"] = head /\ e["coming"] = new
        /\ \A f \in F \ {"known", "coming"} : e[f] = d[f]
    BY <2>2, <2>3, TwoSet
  <2> QED
    BY <1>4, <2>2, <2>4
<1>7. \A f \in Settings : e[f] = d[f]
  BY <1>6 DEF Settings, DeviceFields
<1>8. LastHeard(e)
  <2>1. old[n] = d["profile"] /\ e["profile"] = d["profile"]
    BY <1>2, <1>3, <1>7 DEF IsDevice, LastHeard, Settings
  <2>2. CASE n = 1
    <3>1. new = <<>>
      BY <1>4, <2>2, EmptySequence
    <3> QED
      BY <1>6, <2>1, <2>2, <3>1, EmptySequence DEF LastHeard
  <2>3. CASE n # 1
    <3>1. n - 1 \in 1..n - 1 /\ (n - 1) + 1 = n
      BY <1>4, <2>3
    <3>2. new[n - 1] = old[n] /\ new # <<>>
      BY <1>4, <1>5, <3>1, EmptySequence
    <3> QED
      BY <1>4, <1>6, <2>1, <3>2 DEF LastHeard
  <2> QED
    BY <2>2, <2>3
<1>9. IsDevice(e)
  <2>1. e["raw"] = d["raw"] /\ e["muted"] = d["muted"] /\ e["board"] = d["board"]
    BY <1>7 DEF Settings
  <2> QED
    BY <1>2, <1>6, <1>8, <2>1 DEF IsDevice
<1>10. IsDevice(device)' /\ PanelStaysLit'
  <2>1. device'["raw"] = device["raw"]
    BY <1>2, <1>7 DEF Settings
  <2> QED
    BY <1>1, <1>2, <1>9, <2>1 DEF DesktopInv, IsDevice, LastHeard, PanelStaysLit
<1>11. RepliesGoOn /\ IsSequence(deskReplies) /\ IsSequence(deskReplies)'
  BY <1>1 DEF RepliesGoOn, DesktopInv
<1>12. GivenUpKnown' /\ DeskRepliesOK'
  BY <1>1, <1>11, GivenUpKept, RepliesKept DEF DesktopInv
<1>13. SettingsStand'
  <2>1. \A f : ServesSetting(f) => ServesSetting(f)'
    BY <1>1 DEF ServesSetting
  <2>2. PICK set : set = "nothing" /\ set \notin Settings
    BY DEF Settings
  <2>3. \A f \in Settings \ {set} : device'[f] = device[f]
    BY <1>2, <1>7
  <2> QED
    BY <1>1, <1>11, <2>1, <2>2, <2>3, StandsOn DEF DesktopInv
<1>14. sysWork # NoDeskWork => SysWorkOK(sysWork, device')
  <2> SUFFICES ASSUME sysWork # NoDeskWork PROVE SysWorkOK(sysWork, device')
    OBVIOUS
  <2>1. PICK w : w = sysWork /\ SysWorkOK(w, d)
    BY <1>2 DEF DesktopInv
  <2>2. w.r.action \in Reported => OnCourse(w, e, SettingOf(w.r.action))
    <3>1. w.r.action \in Reported => SettingOf(w.r.action) \in Settings
      BY DEF Reported, SettingOf, Settings
    <3>2. ASSUME NEW f \in Settings, OnCourse(w, d, f)
          PROVE  OnCourse(w, e, f)
      BY <1>7, <3>2 DEF OnCourse
    <3> QED
      BY <2>1, <3>1, <3>2 DEF SysWorkOK
  <2>3. ASSUME w.r.action \in ProfileActions
        PROVE  ProfileCourse(w, e)
    <3>1. ProfileCourse(w, d)
      BY <2>1, <2>3 DEF SysWorkOK
    <3>2. PICK show : show = ToShow(w.r, w.before)
      OBVIOUS
    <3>3. w.alone => \A i \in 1..n : old[i] \in show
      BY <1>2, <1>3, <3>1, <3>2 DEF ProfileCourse
    <3>4. w.alone => e.known \in show /\ \A i \in DOMAIN e.coming : e.coming[i] \in show
      <4>1. 1 \in 1..n
        BY <1>4
      <4> QED
        BY <1>4, <1>5, <1>6, <3>3, <4>1
    <3> QED
      BY <3>1, <3>2, <3>4 DEF ProfileCourse
  <2>4. SysWorkOK(w, e)
    BY <2>1, <2>2, <2>3 DEF SysWorkOK
  <2> QED
    BY <1>2, <2>1, <2>4
<1>15. sysWork' # NoDeskWork => SysWorkOK(sysWork, device)'
  BY <1>1, <1>11, <1>14, SysKept
<1>16. clipWork' # NoDeskWork => ClipWorkOK(clipWork)'
  <2>1. device'.board = device.board
    BY <1>2, <1>7 DEF Settings
  <2> QED
    BY <1>1, <2>1, ClipKept
<1> QED
  BY <1>1, <1>10, <1>11, <1>12, <1>13, <1>15, <1>16 DEF DesktopInv

\* A command brings what it sets to what it was given up for.
LEMMA BringsTrue ==
  ASSUME DesktopInv, NEW c \in givenUp, device' = Effect(c.step, c.arg),
         NEW q, q = deskReplies[c.by], NEW set, set = SettingOf(q.r.action)
  PROVE  /\ Sets(c.step) = {set} /\ set \in {"volume", "muted", "raw", "locked"}
         /\ device'[set] \in Brings(q.r.action, c.arg)
<1>1. CommandOK(c, deskReplies)
  BY DEF DesktopInv, GivenUpKnown
<1>2. Sets(c.step) = {set} /\ c.step \in Setters
  BY <1>1 DEF CommandOK
<1>3. PICK d : d = device /\ d = [f \in DeviceFields |-> d[f]] /\ d.muted \in BOOLEAN
  BY DEF DesktopInv, IsDevice
<1>4. DOMAIN d = DeviceFields
  BY <1>3
<1>5. CASE c.step = "set-volume"
  <2>1. set = "volume" /\ device' = [d EXCEPT !.volume = c.arg]
    BY <1>2, <1>3, <1>5 DEF Sets, Effect
  <2>2. q.r.action = "sys_volume_set"
    BY <2>1 DEF SettingOf
  <2> QED
    BY <1>2, <1>4, <2>1, <2>2 DEF Brings, DeviceFields
<1>6. CASE c.step = "set-mute"
  <2>1. set = "muted"
    BY <1>2, <1>6 DEF Sets
  <2>2. PICK muted \in BOOLEAN : device' = [d EXCEPT !.muted = muted]
    BY <1>3, <1>6, Zenon DEF Effect
  <2>3. q.r.action = "sys_volume_mute"
    BY <2>1 DEF SettingOf
  <2>4. device'["muted"] = muted
    BY <1>4, <2>2 DEF DeviceFields
  <2> QED
    BY <1>2, <2>1, <2>3, <2>4 DEF Brings
<1>7. CASE c.step = "brightnessctl"
  <2>1. set = "raw" /\ device' = [d EXCEPT !.raw = (Panel.max * c.arg) \div 100]
    BY <1>2, <1>3, <1>7 DEF Sets, Effect
  <2>2. q.r.action = "sys_brightness_set"
    BY <2>1 DEF SettingOf
  <2>3. device'["raw"] = (Panel.max * c.arg) \div 100
    BY <1>4, <2>1 DEF DeviceFields
  <2> QED
    BY <1>2, <2>1, <2>2, <2>3 DEF Brings
<1>8. CASE c.step = "loginctl"
  <2>1. set = "locked" /\ device' = [d EXCEPT !.locked = TRUE]
    BY <1>2, <1>3, <1>8 DEF Sets, Effect
  <2>2. q.r.action = "sys_lock"
    BY <2>1 DEF SettingOf
  <2>3. device'["locked"] = TRUE
    BY <1>4, <2>1 DEF DeviceFields
  <2> QED
    BY <1>2, <2>1, <2>2, <2>3 DEF Brings
<1> QED
  BY <1>2, <1>5, <1>6, <1>7, <1>8 DEF Setters

\* Its request was answered with a timeout before any that is served, or begun.
LEMMA BroughtBefore ==
  ASSUME DesktopInv, NEW c \in givenUp, NEW q, q = deskReplies[c.by], NEW i, c.by < i
  PROVE  Brings(q.r.action, c.arg) \subseteq BroughtLate(deskReplies, i, q.r.action)
<1>1. c.by \in DOMAIN deskReplies /\ q.reply = DeskGivenUp /\ q.r.arg = c.arg
  BY DEF DesktopInv, GivenUpKnown, CommandOK
<1>2. c.arg \in TimedOut(deskReplies, i, q.r.action)
  BY <1>1, TimedOutHas
<1> QED
  BY <1>2, Zenon DEF BroughtLate

\* A command that was given up has its effect, which no reply rules out.
LEMMA AbandonedActsKeeps ==
  ASSUME DesktopInv, AbandonedActs
  PROVE  DesktopInv'
<1>1. PICK c \in givenUp : device' = Effect(c.step, c.arg) /\ givenUp' = givenUp \ {c}
  BY DEF AbandonedActs
<1>2. /\ desktop' = desktop /\ sysWork' = sysWork /\ clipWork' = clipWork
      /\ deskReplies' = deskReplies /\ knobs' = knobs
  BY DEF AbandonedActs
<1>3. CommandOK(c, deskReplies)
  BY DEF DesktopInv, GivenUpKnown
<1>4. PICK q, set, action, brings :
        /\ q = deskReplies[c.by] /\ action = q.r.action /\ set = SettingOf(q.r.action)
        /\ brings = Brings(q.r.action, c.arg)
  OBVIOUS
<1>5. /\ Sets(c.step) = {set} /\ set \in {"volume", "muted", "raw", "locked"}
      /\ device'[set] \in brings
  BY <1>1, <1>4, BringsTrue
<1>6. \A i : c.by < i => brings \subseteq BroughtLate(deskReplies, i, action)
  BY <1>1, <1>4, BroughtBefore
<1>7. RepliesGoOn /\ IsSequence(deskReplies)
  BY <1>2 DEF RepliesGoOn, DesktopInv
<1>8. PICK n \in Nat : n = Len(deskReplies) /\ DOMAIN deskReplies = 1..n
  BY <1>7, SequenceDomain
<1>9. c.by \in 1..n /\ q.reply = DeskGivenUp
  BY <1>3, <1>4, <1>8 DEF CommandOK
<1>10. brings \subseteq LateBrings(action)
  <2>1. c.by < n + 1
    BY <1>9
  <2> QED
    BY <1>6, <1>8, <2>1 DEF LateBrings
<1>11. PICK step, arg, d, e :
         step = c.step /\ arg = c.arg /\ d = device /\ e = device' /\ IsDevice(d) /\ e = Effect(step, arg)
  BY <1>1 DEF DesktopInv
<1>12. "raw" \in Sets(step) => /\ arg \in 0..100 /\ desktop.panel = {Panel}
                               /\ Panel.max \in Nat /\ ~Panel.writable
  BY <1>3, <1>11, PanelKnown DEF CommandOK, DesktopInv
<1>13. /\ IsDevice(e) /\ \A f \in Settings \ {set} : e[f] = d[f]
       /\ e.known = d.known /\ e.coming = d.coming
  <2>1. step # "set_profile"
    BY <1>3, <1>11 DEF CommandOK, Setters
  <2>2. IsDevice(device)
    BY DEF DesktopInv
  <2>3. /\ IsDevice(Effect(step, arg))
        /\ \A f \in Settings \ Sets(step) : Effect(step, arg)[f] = device[f]
        /\ Effect(step, arg).known = device.known
        /\ Effect(step, arg).coming = device.coming
    <3>1. "raw" \in Sets(step) => arg \in 0..100 /\ Panel.max \in Nat
      BY <1>12
    <3>2. /\ IsDevice(Effect(step, arg))
          /\ \A f \in Settings \ Sets(step) : Effect(step, arg)[f] = device[f]
          /\ Effect(step, arg).known = device.known
          /\ \/ Effect(step, arg).coming = device.coming
             \/ step = "set_profile" /\ Effect(step, arg).coming = Append(device.coming, arg)
      BY <2>2, <3>1, EffectTrue, Zenon
    <3> QED
      BY <2>1, <3>2, Zenon
  <2> QED
    BY <1>5, <1>11, <2>3
<1>14. IsDevice(device)'
  BY <1>11, <1>13 DEF IsDevice, LastHeard
<1>15. PanelStaysLit'
  <2>1. CASE set = "raw"
    <3>1. \A panel \in desktop.panel : ~panel.writable
      BY <1>5, <1>11, <1>12, <2>1
    <3> QED
      BY <1>2, <3>1 DEF PanelStaysLit
  <2>2. CASE set # "raw"
    <3>1. device'["raw"] = device["raw"]
      BY <1>11, <1>13, <2>2 DEF Settings
    <3> QED
      BY <1>2, <3>1 DEF PanelStaysLit, DesktopInv
  <2> QED
    BY <2>1, <2>2
<1>16. GivenUpKnown' /\ DeskRepliesOK'
  BY <1>1, <1>2, <1>7, GivenUpKept, RepliesKept DEF DesktopInv
<1>17. sysWork # NoDeskWork => SysWorkOK(sysWork, device')
  <2> SUFFICES ASSUME sysWork # NoDeskWork PROVE SysWorkOK(sysWork, device')
    OBVIOUS
  <2>1. PICK w : w = sysWork /\ SysWorkOK(w, d)
    BY <1>11 DEF DesktopInv
  <2>2. ASSUME w.r.action \in Reported
        PROVE  OnCourse(w, e, SettingOf(w.r.action))
    <3>1. PICK f : f = SettingOf(w.r.action) /\ f # "nothing" /\ f \in Settings
      BY <2>2 DEF Reported, SettingOf, Settings
    <3>2. OnCourse(w, d, f)
      BY <2>1, <2>2, <3>1 DEF SysWorkOK
    <3>3. CASE f # set
      <4>1. e[f] = d[f]
        BY <1>13, <3>1, <3>3
      <4> QED
        BY <3>1, <3>2, <4>1 DEF OnCourse
    <3>4. CASE f = set
      <4>1. w.r.action = action
        BY <1>4, <3>1, <3>4, OneSetter
      <4>2. e[f] \in LateBrings(w.r.action)
        BY <1>5, <1>10, <1>11, <3>4, <4>1
      <4> QED
        BY <3>1, <3>2, <4>2 DEF OnCourse, InPlace
    <3> QED
      BY <3>3, <3>4
  <2>3. ASSUME w.r.action \in ProfileActions
        PROVE  ProfileCourse(w, e)
    BY <1>13, <2>1, <2>3 DEF SysWorkOK, ProfileCourse
  <2>4. SysWorkOK(w, e)
    BY <2>1, <2>2, <2>3 DEF SysWorkOK
  <2> QED
    BY <1>11, <2>1, <2>4
<1>18. sysWork' # NoDeskWork => SysWorkOK(sysWork, device)'
  BY <1>2, <1>7, <1>17, SysKept
<1>19. clipWork' # NoDeskWork => ClipWorkOK(clipWork)'
  <2>1. device'.board = device.board
    BY <1>5, <1>11, <1>13 DEF Settings
  <2> QED
    BY <1>2, <2>1, ClipKept
<1>20. SettingsStand'
  <2>1. SUFFICES ASSUME knobs' = 0, NEW i \in DOMAIN deskReplies', deskReplies'[i].reply.ok,
                        NEW act, act = deskReplies'[i].r.action,
                        NEW field, field = SettingOf(act), field # "nothing"
                 PROVE  \/ \E j \in DOMAIN deskReplies' : j > i /\ SettingOf(deskReplies'[j].r.action) = field
                        \/ ServesSetting(field)'
                        \/ device'[field] \in {deskReplies'[i].after[field]} \cup BroughtLate(deskReplies, i, act)'
    BY DEF SettingsStand, ServesSetting
  <2>2. PICK replies : replies = deskReplies
    OBVIOUS
  <2>3. BroughtLate(deskReplies, i, act)' = BroughtLate(replies, i, act)
    <3>1. BroughtLate(replies, i, act)' = BroughtLate(replies, i, act)
      BY <1>2, PanelStays
    <3> QED
      BY <1>2, <2>2, <3>1
  <2>4. field \in Settings
    BY <2>1 DEF SettingOf, Settings
  <2>5. \/ \E j \in DOMAIN deskReplies : j > i /\ SettingOf(deskReplies[j].r.action) = field
        \/ ServesSetting(field)
        \/ device[field] \in {deskReplies[i].after[field]} \cup BroughtLate(deskReplies, i, act)
    BY <1>2, <2>1 DEF DesktopInv, SettingsStand, ServesSetting
  <2>6. ServesSetting(field) => ServesSetting(field)'
    BY <1>2 DEF ServesSetting
  <2>7. CASE field # set
    <3>1. device'[field] = device[field]
      BY <1>11, <1>13, <2>4, <2>7
    <3> QED
      BY <1>2, <2>2, <2>3, <2>5, <2>6, <3>1
  <2>8. CASE field = set
    <3>1. act = action
      BY <1>4, <2>1, <2>8, OneSetter
    <3>2. i # c.by
      <4>1. ~DeskGivenUp.ok
        BY DEF DeskGivenUp
      <4> QED
        BY <1>2, <1>4, <1>9, <2>1, <4>1
    <3>3. CASE c.by < i
      <4>1. device'[field] \in BroughtLate(deskReplies, i, act)
        BY <1>5, <1>6, <2>8, <3>1, <3>3
      <4> QED
        BY <2>2, <2>3, <4>1
    <3>4. CASE c.by > i
      <4>1. c.by \in DOMAIN deskReplies /\ SettingOf(deskReplies[c.by].r.action) = field
        BY <1>4, <1>8, <1>9, <2>8
      <4> QED
        BY <1>2, <3>4, <4>1
    <3>5. i \in 1..n
      BY <1>2, <1>8, <2>1
    <3> QED
      BY <1>9, <3>2, <3>3, <3>4, <3>5
  <2> QED
    BY <2>7, <2>8
<1>21. IsSequence(deskReplies)'
  BY <1>2, <1>7
<1> QED
  BY <1>2, <1>14, <1>15, <1>16, <1>18, <1>19, <1>20, <1>21 DEF DesktopInv

LEMMA ClipFields ==
  ASSUME DesktopInv, ~ClipIdle
  PROVE  /\ ClipWorkOK(clipWork) /\ clipWork.r.action \in {"clipboard_read", "clipboard_write"}
         /\ SettingOf(clipWork.r.action) \in {"board", "nothing"}
         /\ clipWork.r.action = "clipboard_write" => SettingOf(clipWork.r.action) = "board"
<1>1. ClipWorkOK(clipWork)
  BY DEF DesktopInv, ClipIdle
<1> QED
  BY <1>1 DEF ClipWorkOK, SettingOf

LEMMA ClipGoesOn ==
  ASSUME DesktopInv, ~ClipIdle, desktop' = desktop, sysWork' = sysWork, knobs' = knobs,
         givenUp' = givenUp, deskReplies' = deskReplies, clipWork'.r = clipWork.r,
         IsDevice(device'), ClipWorkOK(clipWork)',
         \A f \in DeviceFields \ {SettingOf(clipWork.r.action)} : device'[f] = device[f]
  PROVE  DesktopInv'
<1>1. PICK set : set = SettingOf(clipWork.r.action)
  OBVIOUS
<1>2. \A f \in DeviceFields \ {"board"} : device'[f] = device[f]
  <2>1. "nothing" \notin DeviceFields
    BY DEF DeviceFields
  <2> QED
    BY <2>1, ClipFields
<1>3. RepliesGoOn /\ IsSequence(deskReplies) /\ IsSequence(deskReplies)'
  BY DEF RepliesGoOn, DesktopInv
<1>4. GivenUpKnown' /\ DeskRepliesOK'
  BY <1>3, GivenUpKept, RepliesKept DEF DesktopInv
<1>5. SettingsStand'
  <2>1. \A f : ServesSetting(f) => ServesSetting(f)'
    BY DEF ServesSetting
  <2>2. ServesSetting(set)'
    BY <1>1 DEF ServesSetting
  <2>3. \A f \in Settings \ {set} : device'[f] = device[f]
    <3>1. Settings \subseteq DeviceFields
      BY DEF Settings, DeviceFields
    <3> QED
      BY <1>1, <3>1
  <2> QED
    BY <2>1, <2>2, <2>3, StandsOn DEF DesktopInv
<1>6. PanelStaysLit' /\ IsDevice(device)'
  <2>1. device'["raw"] = device["raw"]
    BY <1>2 DEF DeviceFields
  <2> QED
    BY <2>1 DEF DesktopInv, PanelStaysLit, IsDevice, LastHeard
<1>7. sysWork' # NoDeskWork => SysWorkOK(sysWork, device)'
  BY <1>2, <1>3, SysAside
<1> QED
  BY <1>3, <1>4, <1>5, <1>6, <1>7 DEF DesktopInv

LEMMA ClipAnswers ==
  ASSUME DesktopInv, ~ClipIdle, desktop' = desktop, sysWork' = sysWork, knobs' = knobs,
         givenUp' = givenUp, device' = device, NEW reply, ClipEnds(reply),
         \A m, late : m.r = clipWork.r /\ m.reply = reply /\ m.alone = clipWork.alone
                      /\ m.after = device => ReplyTold(m, late)
  PROVE  DesktopInv'
<1>1. PICK set : set = SettingOf(clipWork.r.action)
  OBVIOUS
<1>2. PICK m : /\ deskReplies' = Append(deskReplies, m) /\ m.r = clipWork.r /\ m.reply = reply
               /\ m.alone = clipWork.alone /\ m.after = device
  <2>1. deskReplies' = Append(deskReplies, [r |-> clipWork.r, reply |-> reply, alone |-> clipWork.alone,
           before |-> IF "before" \in DOMAIN clipWork THEN clipWork.before ELSE device, after |-> device'])
    BY DEF ClipEnds, DeskTold
  <2> QED
    BY <2>1
<1>3. ReplyTold(m, Late(m.r.action)) /\ clipWork' = NoDeskWork
  BY <1>2 DEF ClipEnds
<1>4. RepliesGoOn /\ IsSequence(deskReplies)
  BY <1>2 DEF RepliesGoOn, DesktopInv
<1>5. GivenUpKnown' /\ DeskRepliesOK' /\ IsSequence(deskReplies)'
  <2>1. DeskRepliesOK'
    BY <1>2, <1>3, RepliesGrow DEF DesktopInv
  <2>2. GivenUpKnown'
    BY <1>4, GivenUpKept DEF DesktopInv
  <2> QED
    BY <2>1, <2>2 DEF DeskRepliesOK
<1>6. SettingsStand'
  <2>1. \A f \in Settings \ {set} : ServesSetting(f) => ServesSetting(f)'
    BY <1>1 DEF ServesSetting
  <2>2. \A f \in Settings \ {set} : device'[f] = device[f]
    OBVIOUS
  <2>3. SettingOf(m.r.action) = set /\ m.after = device'
    BY <1>1, <1>2
  <2> QED
    BY <1>2, <1>4, <2>1, <2>2, <2>3, StandsOn DEF DesktopInv
<1>7. IsDevice(device)' /\ PanelStaysLit'
  BY DEF DesktopInv, IsDevice, LastHeard, PanelStaysLit
<1>8. sysWork' # NoDeskWork => SysWorkOK(sysWork, device)'
  BY <1>4, SysAside
<1> QED
  BY <1>3, <1>5, <1>6, <1>7, <1>8 DEF DesktopInv

LEMMA ClipRefuses ==
  ASSUME DesktopInv, ~ClipIdle, desktop' = desktop, sysWork' = sysWork, knobs' = knobs,
         givenUp' = givenUp, device' = device, ClipEnds(DeskRefused)
  PROVE  DesktopInv'
<1>1. PICK reply : reply = DeskRefused
  OBVIOUS
<1>2. DeskRefused # DeskGivenUp /\ ~DeskRefused.ok
  BY DEF DeskRefused, DeskGivenUp
<1>3. \A m, late : m.reply = reply => ReplyTold(m, late)
  BY <1>1, <1>2 DEF ReplyTold
<1>4. ClipEnds(reply)
  BY <1>1
<1> QED
  BY <1>3, <1>4, ClipAnswers

LEMMA ClipAskKeeps ==
  ASSUME DesktopInv, NEW r \in ClipRequests, ClipAsk(r)
  PROVE  DesktopInv'
<1>1. /\ ClipIdle /\ device' = device
      /\ desktop' = desktop /\ givenUp' = givenUp /\ sysWork' = sysWork /\ knobs' = knobs
  BY DEF ClipAsk
<1>2. SettingOf("none") = "nothing"
  BY DEF SettingOf
<1>3. clipWork = NoDeskWork /\ SettingOf(clipWork.r.action) = "nothing"
  BY <1>1, <1>2 DEF ClipIdle, NoDeskWork
<1>4. RepliesGoOn /\ IsSequence(deskReplies)
  BY DEF ClipAsk, DeskTold, RepliesGoOn, DesktopInv
<1>5. IsDevice(device)' /\ PanelStaysLit' /\ GivenUpKnown'
  BY <1>1, <1>4, GivenUpKept DEF DesktopInv, IsDevice, LastHeard, PanelStaysLit
<1>6. sysWork' # NoDeskWork => SysWorkOK(sysWork, device)'
  BY <1>1, <1>4, SysAside
<1>7. \A f \in Settings : ServesSetting(f) => ServesSetting(f)'
  <2>1. "nothing" \notin Settings
    BY DEF Settings
  <2> QED
    BY <1>1, <1>3, <2>1 DEF ServesSetting
<1>8. CASE ClipValid(r) /\ r.action # "clipboard_providers"
  <2>1. /\ clipWork' = [r |-> r, tools |-> ToolChain(r.action), at |-> "try", fed |-> {},
                        out |-> EmptyText, alone |-> TRUE]
        /\ deskReplies' = deskReplies
    BY <1>8 DEF ClipAsk
  <2>2. r.action \in {"clipboard_read", "clipboard_write"}
    BY <1>8, DesktopAssumption DEF ClipActions
  <2>3. ClipWorkOK(clipWork)'
    BY <2>1, <2>2 DEF ClipWorkOK, EmptyText
  <2>4. DeskRepliesOK'
    BY <1>1, <2>1, RepliesKept DEF DesktopInv, DeskRepliesOK
  <2>5. SettingsStand'
    <3>1. PICK set : set = "nothing" /\ set \notin Settings
      BY DEF Settings
    <3>2. \A f \in Settings \ {set} : device'[f] = device[f]
      BY <1>1
    <3>3. \A f \in Settings \ {set} : ServesSetting(f) => ServesSetting(f)'
      BY <1>7
    <3> QED
      BY <1>1, <1>4, <2>1, <3>1, <3>2, <3>3, StandsOn DEF DesktopInv
  <2> QED
    BY <1>1, <1>5, <1>6, <1>4, <2>1, <2>3, <2>4, <2>5 DEF DesktopInv
<1>9. CASE ~(ClipValid(r) /\ r.action # "clipboard_providers")
  <2>1. PICK reply : /\ clipWork' = clipWork /\ DeskTold([r |-> r, alone |-> TRUE], reply)
                     /\ reply.ok => r.action = "clipboard_providers"
    <3>1. ~DeskRefused.ok
      BY DEF DeskRefused
    <3> QED
      BY <1>9, <3>1 DEF ClipAsk
  <2>2. PICK m : deskReplies' = Append(deskReplies, m) /\ m.r = r /\ m.reply = reply
                 /\ m.after = device'
    BY <2>1 DEF DeskTold
  <2>3. ReplyTold(m, Late(m.r.action))
    <3>1. r.action \in ClipActions
      BY DesktopAssumption
    <3> QED
      BY <2>1, <2>2, <3>1 DEF ReplyTold, ClipActions
  <2>4. DeskRepliesOK'
    BY <1>1, <2>2, <2>3, RepliesGrow DEF DesktopInv, DeskRepliesOK
  <2>5. SettingsStand'
    <3>1. PICK set : set = SettingOf(r.action)
      OBVIOUS
    <3>2. \A f \in Settings \ {set} : device'[f] = device[f]
      BY <1>1
    <3>3. \A f \in Settings \ {set} : ServesSetting(f) => ServesSetting(f)'
      BY <1>7
    <3>4. SettingOf(m.r.action) = set
      BY <2>2, <3>1
    <3> QED
      BY <1>1, <1>4, <2>2, <3>2, <3>3, <3>4, StandsOn DEF DesktopInv
  <2>6. clipWork' = NoDeskWork /\ IsSequence(deskReplies)'
    BY <1>3, <2>1, <2>4 DEF DeskRepliesOK
  <2> QED
    BY <1>1, <1>5, <1>6, <2>4, <2>5, <2>6 DEF DesktopInv
<1> QED
  BY <1>8, <1>9

LEMMA ClipTryKeeps ==
  ASSUME DesktopInv, ClipTry
  PROVE  DesktopInv'
<1>1. /\ ~ClipIdle /\ clipWork.at = "try" /\ device' = device
      /\ desktop' = desktop /\ givenUp' = givenUp /\ sysWork' = sysWork /\ knobs' = knobs
  BY DEF ClipTry, ClipAt
<1>2. ClipWorkOK(clipWork)
  BY <1>1, ClipFields
<1>3. CASE ClipEnds(DeskRefused)
  BY <1>1, <1>3, ClipRefuses
<1>4. ASSUME NEW w, w \in {[clipWork EXCEPT !.tools = Tail(@)],
                           [clipWork EXCEPT !.at = "running", !.fed = @ \cup {ClipTool}]},
             clipWork' = w, deskReplies' = deskReplies
      PROVE  DesktopInv'
  <2>1. clipWork = [r |-> clipWork.r, tools |-> clipWork.tools, at |-> clipWork.at,
                    fed |-> clipWork.fed, out |-> clipWork.out, alone |-> clipWork.alone]
    BY <1>2 DEF ClipWorkOK
  <2>2. clipWork.fed = {}
    BY <1>1, <1>2 DEF ClipWorkOK
  <2>3. \/ w = [r |-> clipWork.r, tools |-> Tail(clipWork.tools), at |-> "try",
                fed |-> {}, out |-> clipWork.out, alone |-> clipWork.alone]
        \/ w = [r |-> clipWork.r, tools |-> clipWork.tools, at |-> "running",
                fed |-> {ClipTool}, out |-> clipWork.out, alone |-> clipWork.alone]
    <3>1. CASE w = [clipWork EXCEPT !.tools = Tail(@)]
      BY <1>1, <2>1, <2>2, <3>1
    <3>2. CASE w = [clipWork EXCEPT !.at = "running", !.fed = @ \cup {ClipTool}]
      <4>1. PICK tool : tool = ClipTool
        OBVIOUS
      <4>2. w = [clipWork EXCEPT !.at = "running", !.fed = {tool}]
        BY <2>1, <2>2, <3>2, <4>1
      <4> QED
        BY <2>1, <4>1, <4>2
    <3> QED
      BY <1>4, <3>1, <3>2
  <2>4. ClipWorkOK(w) /\ w.at # "ended" /\ w.r = clipWork.r
    <3>1. PICK tool : tool = ClipTool
      OBVIOUS
    <3>2. /\ w = [r |-> w.r, tools |-> w.tools, at |-> w.at, fed |-> w.fed, out |-> w.out, alone |-> w.alone]
          /\ w.r = clipWork.r /\ w.out = clipWork.out /\ w.alone = clipWork.alone
          /\ (w.at = "try" /\ w.fed = {}) \/ (w.at = "running" /\ w.fed = {tool})
      BY <2>3, <3>1
    <3> QED
      BY <1>2, <3>2 DEF ClipWorkOK
  <2>5. ClipWorkOK(clipWork)'
    BY <1>1, <1>4, <2>4 DEF ClipWorkOK
  <2>6. IsDevice(device')
    BY <1>1 DEF DesktopInv
  <2> QED
    BY <1>1, <1>4, <2>4, <2>5, <2>6, ClipGoesOn
<1>5. \/ ClipEnds(DeskRefused)
      \/ clipWork' = [clipWork EXCEPT !.tools = Tail(@)] /\ deskReplies' = deskReplies
      \/ /\ clipWork' = [clipWork EXCEPT !.at = "running", !.fed = @ \cup {ClipTool}]
         /\ deskReplies' = deskReplies
  BY DEF ClipTry
<1> QED
  BY <1>3, <1>4, <1>5

LEMMA ToolActsKeeps ==
  ASSUME DesktopInv, ToolActs
  PROVE  DesktopInv'
<1>1. /\ ~ClipIdle /\ clipWork.at = "running" /\ deskReplies' = deskReplies
      /\ desktop' = desktop /\ givenUp' = givenUp /\ sysWork' = sysWork /\ knobs' = knobs
  BY DEF ToolActs, ClipAt
<1>2. ClipWorkOK(clipWork) /\ IsDevice(device)
  BY <1>1, ClipFields DEF DesktopInv
<1>3. clipWork = [r |-> clipWork.r, tools |-> clipWork.tools, at |-> clipWork.at,
                  fed |-> clipWork.fed, out |-> clipWork.out, alone |-> clipWork.alone]
  BY <1>2 DEF ClipWorkOK
<1>4. CASE clipWork.r.action = "clipboard_write"
  <2>1. device' = [device EXCEPT !.board = clipWork.r.text] /\ clipWork' = [clipWork EXCEPT !.at = "ended"]
    BY <1>4 DEF ToolActs
  <2>2. /\ IsDevice(device') /\ device'["board"] = clipWork.r.text
        /\ \A f \in DeviceFields \ {"board"} : device'[f] = device[f]
    <3>1. PICK text : text = clipWork.r.text /\ text.size \in Nat
      BY <1>2, <1>4, DesktopAssumption DEF ClipWorkOK
    <3>2. device' = Changed("board", text) /\ "board" \in Settings \ {"profile"}
      BY <2>1, <3>1 DEF Changed, Settings
    <3> QED
      BY <1>2, <3>1, <3>2, FieldSet
  <2>3. clipWork' = [r |-> clipWork.r, tools |-> clipWork.tools, at |-> "ended",
                     fed |-> clipWork.fed, out |-> clipWork.out, alone |-> clipWork.alone]
    BY <1>3, <2>1
  <2>4. ClipWorkOK(clipWork)'
    BY <1>1, <1>2, <1>4, <2>2, <2>3 DEF ClipWorkOK
  <2>5. SettingOf(clipWork.r.action) = "board"
    BY <1>4 DEF SettingOf
  <2>6. clipWork'.r = clipWork.r
    BY <2>3
  <2> QED
    BY <1>1, <2>2, <2>4, <2>5, <2>6, ClipGoesOn
<1>5. CASE clipWork.r.action # "clipboard_write"
  <2>1. device' = device /\ clipWork' = [clipWork EXCEPT !.at = "ended", !.out = device.board]
    BY <1>5 DEF ToolActs
  <2>2. clipWork' = [r |-> clipWork.r, tools |-> clipWork.tools, at |-> "ended",
                     fed |-> clipWork.fed, out |-> device.board, alone |-> clipWork.alone]
    BY <1>3, <2>1
  <2>3. ClipWorkOK(clipWork)'
    BY <1>1, <1>2, <1>5, <2>1, <2>2 DEF ClipWorkOK, IsDevice
  <2>4. clipWork'.r = clipWork.r /\ IsDevice(device')
    BY <1>2, <2>1, <2>2
  <2> QED
    BY <1>1, <2>1, <2>3, <2>4, ClipGoesOn
<1> QED
  BY <1>4, <1>5

LEMMA ClipDoneKeeps ==
  ASSUME DesktopInv, ClipDone
  PROVE  DesktopInv'
<1>1. /\ ~ClipIdle /\ clipWork.at = "ended" /\ device' = device
      /\ desktop' = desktop /\ givenUp' = givenUp /\ sysWork' = sysWork /\ knobs' = knobs
  BY DEF ClipDone, ClipAt
<1>2. ClipWorkOK(clipWork) /\ clipWork.r.action \in {"clipboard_read", "clipboard_write"}
  BY <1>1, ClipFields
<1>3. PICK reply : /\ ClipEnds(reply)
                   /\ reply = IF clipWork.r.action = "clipboard_write" THEN [ok |-> TRUE]
                                ELSE ReadReply(clipWork.out)
  BY DEF ClipDone
<1>4. ASSUME NEW m, NEW late, m.r = clipWork.r, m.reply = reply, m.alone = clipWork.alone, m.after = device
      PROVE  ReplyTold(m, late)
  <2>1. clipWork.alone =>
          device.board = IF clipWork.r.action = "clipboard_write" THEN clipWork.r.text ELSE clipWork.out
    BY <1>1, <1>2 DEF ClipWorkOK
  <2>2. CASE clipWork.r.action = "clipboard_write"
    BY <1>4, <2>1, <2>2 DEF ReplyTold
  <2>3. CASE clipWork.r.action = "clipboard_read"
    <3>1. PICK out : out = clipWork.out
      OBVIOUS
    <3>2. reply.ok => /\ ~(out.size > ClipMax)
                      /\ reply = [ok |-> TRUE, found |-> out # EmptyText, text |-> out]
      BY <1>3, <2>3, <3>1 DEF ReadReply, DeskRefused
    <3>3. out.size \in Nat /\ ClipMax \in Nat
      BY <1>2, <3>1, DesktopAssumption DEF ClipWorkOK
    <3>4. reply.ok => reply.text.size <= ClipMax /\ reply.text = out
      BY <3>2, <3>3
    <3>5. reply.ok => reply.found = (reply.text # EmptyText)
      BY <3>2
    <3>6. reply.ok /\ m.alone => reply.text = m.after.board
      BY <1>4, <2>1, <2>3, <3>1, <3>4
    <3> QED
      BY <1>4, <2>3, <3>4, <3>5, <3>6 DEF ReplyTold
  <2> QED
    BY <1>2, <2>2, <2>3
<1> QED
  BY <1>1, <1>3, <1>4, ClipAnswers

LEMMA ClipFailsKeeps ==
  ASSUME DesktopInv, ClipFails
  PROVE  DesktopInv'
<1>1. /\ ~ClipIdle /\ device' = device /\ ClipEnds(DeskRefused)
      /\ desktop' = desktop /\ givenUp' = givenUp /\ sysWork' = sysWork /\ knobs' = knobs
  BY DEF ClipFails, ClipAt
<1> QED
  BY <1>1, ClipRefuses

LEMMA DesktopStarts ==
  ASSUME DesktopInit
  PROVE  DesktopInv
<1>1. /\ desktop \in Desktops /\ device = desktop.first /\ sysWork = NoDeskWork
      /\ clipWork = NoDeskWork /\ givenUp = {} /\ deskReplies = <<>> /\ knobs = 0
  BY DEF DesktopInit
<1>2. /\ device = [f \in DeviceFields |-> device[f]] /\ device.raw \in Nat /\ device.muted \in BOOLEAN
      /\ device.board.size \in Nat /\ device.known = device.profile /\ device.coming = <<>>
  BY <1>1, DesktopAssumption
<1>3. IsDevice(device)
  <2>1. IsSequence(device.coming)
    BY <1>2, EmptySequence
  <2> QED
    BY <1>2, <2>1 DEF IsDevice, LastHeard
<1>4. IsSequence(deskReplies) /\ DOMAIN deskReplies = {}
  BY <1>1, EmptySequence
<1>5. PanelStaysLit /\ SettingsStand
  BY <1>1, <1>4 DEF PanelStaysLit, SettingsStand
<1>6. GivenUpKnown /\ DeskRepliesOK
  BY <1>1, <1>4 DEF GivenUpKnown, DeskRepliesOK
<1> QED
  BY <1>1, <1>3, <1>4, <1>5, <1>6 DEF DesktopInv

LEMMA DesktopSteps ==
  ASSUME DesktopInv, [DesktopNext]_desktopVars
  PROVE  DesktopInv'
<1>1. CASE UNCHANGED desktopVars
  <2>1. /\ desktop' = desktop /\ device' = device /\ sysWork' = sysWork /\ clipWork' = clipWork
        /\ givenUp' = givenUp /\ deskReplies' = deskReplies /\ knobs' = knobs
    BY <1>1 DEF desktopVars
  <2>2. RepliesGoOn /\ IsSequence(deskReplies) /\ IsSequence(deskReplies)'
    BY <2>1 DEF RepliesGoOn, DesktopInv
  <2>3. GivenUpKnown' /\ DeskRepliesOK'
    BY <2>1, <2>2, GivenUpKept, RepliesKept DEF DesktopInv
  <2>4. sysWork' # NoDeskWork => SysWorkOK(sysWork, device)'
    BY <2>1, <2>2, SysAside
  <2>5. clipWork' # NoDeskWork => ClipWorkOK(clipWork)'
    BY <2>1, ClipKept
  <2>6. IsDevice(device)' /\ PanelStaysLit'
    BY <2>1 DEF DesktopInv, IsDevice, LastHeard, PanelStaysLit
  <2>7. SettingsStand'
    <3>1. PICK set : set = "nothing" /\ set \notin Settings
      BY DEF Settings
    <3>2. \A f : ServesSetting(f) => ServesSetting(f)'
      BY <2>1 DEF ServesSetting
    <3>3. \A f \in Settings \ {set} : device'[f] = device[f]
      BY <2>1
    <3> QED
      BY <2>1, <2>2, <3>1, <3>2, <3>3, StandsOn DEF DesktopInv
  <2> QED
    BY <2>1, <2>2, <2>3, <2>4, <2>5, <2>6, <2>7 DEF DesktopInv
<1>2. CASE DesktopNext
  BY <1>2, SysAskKeeps, SysDelegatesKeeps, SysStepKeeps, SysFailsKeeps, SysTimesOutKeeps,
     UserActsKeeps, AbandonedActsKeeps, ProfileHeardKeeps, ClipAskKeeps, ClipTryKeeps,
     ToolActsKeeps, ClipDoneKeeps, ClipFailsKeeps DEF DesktopNext
<1> QED
  BY <1>1, <1>2

LEMMA DesktopShows == DesktopInv => DesktopTellsTheTruth
<1> SUFFICES ASSUME DesktopInv PROVE DesktopTellsTheTruth
  OBVIOUS
<1>1. \A i \in DOMAIN deskReplies :
        ReplyTold(deskReplies[i], TimedOut(deskReplies, i, deskReplies[i].r.action))
  BY DEF DesktopInv, DeskRepliesOK
<1>2. SettingsAreReported
  BY <1>1, Zenon DEF SettingsAreReported, ReplyTold
<1>3. ~ClipIdle => Cardinality(clipWork.fed) <= 1
  <2> SUFFICES ASSUME ~ClipIdle PROVE Cardinality(clipWork.fed) <= 1
    OBVIOUS
  <2>1. ClipWorkOK(clipWork)
    BY ClipFields
  <2>2. CASE clipWork.fed = {}
    BY <2>2, FS_EmptySet
  <2>3. CASE clipWork.fed # {}
    <3>1. PICK tool : clipWork.fed = {tool}
      BY <2>1, <2>3 DEF ClipWorkOK
    <3> QED
      BY <3>1, FS_Singleton
  <2> QED
    BY <2>2, <2>3
<1>4. ClipboardIsTold
  <2>1. \A i \in DOMAIN deskReplies :
          LET m == deskReplies[i] IN
          m.reply.ok =>
            CASE m.r.action = "clipboard_write" -> m.alone => m.after.board = m.r.text
              [] m.r.action = "clipboard_read" ->
                   /\ m.reply.text.size <= ClipMax /\ m.reply.found = (m.reply.text # EmptyText)
                   /\ m.alone => m.reply.text = m.after.board
              [] OTHER -> TRUE
    BY <1>1, Zenon DEF ReplyTold
  <2> QED
    BY <1>3, <2>1 DEF ClipboardIsTold
<1> QED
  BY <1>2, <1>4 DEF DesktopInv, DesktopTellsTheTruth

\* Settings are what the replies say, or what a request answered with a timeout
\* asked for; the power profile is one that was to be shown when the request
\* began; nobody is left in the dark, and the clipboard has the text of its last
\* writer: system (src/plugins/system) and clipboard (src/plugins/clipboard), for
\* any hosts, requests, faults and delays of zbus's cache.
THEOREM DesktopIsTrue == DesktopSpec => []DesktopTellsTheTruth
<1>1. DesktopInit => DesktopInv
  BY DesktopStarts
<1>2. DesktopInv /\ [DesktopNext]_desktopVars => DesktopInv'
  BY DesktopSteps
<1>3. DesktopInv => DesktopTellsTheTruth
  BY DesktopShows
<1> QED
  BY <1>1, <1>2, <1>3, PTL DEF DesktopSpec

-----------------------------------------------------------------------------
(* Media: what is told of a player is true of it                             *)

\* What a player may have signalled.
IsPos(s) == "pos" \in DOMAIN s
IsRate(s) == "rate" \in DOMAIN s
MediaSignals == [pos : Nat] \cup [rate : {1, 2}] \cup [playing : BOOLEAN]

NoPos(q) == \A i \in 1..Len(q) : ~IsPos(q[i])
NoRate(q) == \A i \in 1..Len(q) : ~IsRate(q[i])

\* The last position and the last rate on their way are the player's, or
\* the player has moved on since.
PosTold(q, pos) ==
  \A i \in 1..Len(q) : IsPos(q[i]) /\ (\A j \in i + 1..Len(q) : ~IsPos(q[j])) => q[i].pos <= pos
RateTold(q, rate) ==
  \A i \in 1..Len(q) : IsRate(q[i]) /\ (\A j \in i + 1..Len(q) : ~IsRate(q[j])) => q[i].rate <= rate

\* Of a player that has gone on playing one track, with every signal heard,
\* the caches never know more than there is.
Steady(p) ==
  /\ players[p].up /\ players[p].playing /\ players[p].track = 1
  /\ \A f \in Fields : metaCache[p][f] \in {Unknown, 1}
  /\ \A i \in 1..Len(signals[p]) : "playing" \in DOMAIN signals[p][i] => signals[p][i].playing
  /\ PosTold(signals[p], players[p].pos) /\ RateTold(signals[p], players[p].rate)
  /\ NoPos(signals[p]) => Cached(p).pos <= players[p].pos
  /\ NoRate(signals[p]) => Cached(p).rate <= players[p].rate
  /\ NoPos(signals[p]) /\ NoRate(signals[p]) =>
       Cached(p).pos + (mediaNow - Cached(p).at) * Cached(p).rate <= players[p].pos

Volumes == {50} \cup {Level(r.arg) : r \in MediaRequests}
LoopStates == {"None"} \cup {LoopMode[mode] : mode \in DOMAIN LoopMode}
PlayerStates == [up : BOOLEAN, playing : BOOLEAN, pos : Nat, track : Nat \ {0}, rate : {1, 2},
                 stale : Nat, volume : Volumes, loop : LoopStates]

MediaCaches == [pos : Nat, rate : 0..2, at : Nat]

MediaTyped ==
  /\ mediaNow \in Nat /\ playerEvents \in Nat
  /\ players \in [Names -> PlayerStates] /\ signals \in [Names -> Seq(MediaSignals)]
  /\ \A p \in Names : Cached(p) \in MediaCaches /\ Cached(p).at <= mediaNow
  /\ metaCache \in [Names -> [Fields -> Nat]]

SeekStages == {"track", "set", "where", "offset"}
MidStages == (MediaActions \ {"media_list_players"}) \cup SeekStages \cup {"poll"}
MidWork == [at : MidStages, r : MediaRequests, player : Names, target : Int, track : Int,
            read : BOOLEAN, events : Nat, since : Nat]
AnswerWork == [at : {"answer"}, r : MediaRequests, player : Names, playing : BOOLEAN, raw : Nat,
               meta : [Fields -> Nat], track : Nat \ {0}, given : SUBSET Fields, rate : {1, 2},
               volume : Volumes, loop : LoopStates, events : Nat, since : Nat]

\* Nobody else has touched the player since the request came.
Calm == mediaWork.events = playerEvents

\* A seek on its way: its target, the track it is for, the place it read.
SeekOK ==
  LET w == mediaWork IN
  /\ w.r.arg \in Int
  /\ w.at \in SeekStages => (w.r.arg <= MaxI64 => w.target >= 0)
  /\ w.at = "set" => Kind(w.player).tracks /\ (Calm => w.track = players[w.player].track)
  /\ w.at \in {"where", "offset"} => ~Kind(w.player).tracks \/ ~Kind(w.player).setpos
  /\ w.at = "offset" /\ Calm /\ Kind(w.player).reports =>
       players[w.player].pos - (w.target - w.track) \in 0..2 * (mediaNow - w.since)

\* The reads of a turned player so far.
PollOK ==
  LET w == mediaWork p == players[w.player] lag == Kind(w.player).lag IN
  /\ w.target \in 0..3
  /\ Calm /\ lag < 4 =>
       /\ p.up /\ p.stale = IF lag > w.target THEN lag - w.target ELSE 0
       /\ w.target > 0 => /\ w.read = IF lag > 0 THEN ~p.playing ELSE p.playing
                          /\ lag > 0 => w.target <= lag

AnswerOK ==
  LET w == mediaWork IN
  /\ \A f \in w.given : w.meta[f] = w.track
  /\ w.player \notin interrupted =>
       /\ w.rate = players[w.player].rate /\ w.raw <= players[w.player].pos /\ w.track = 1
       /\ \A f \in Fields : w.meta[f] \in {Unknown, 1}

MediaWorkOK ==
  LET w == mediaWork IN
  /\ w \in MidWork \cup AnswerWork /\ ValidMedia(w.r)
  /\ IsAllowed(w.player) /\ w.r.player \in {NoPlayer, w.player}
  /\ w.events <= playerEvents /\ w.since <= mediaNow
  /\ w.at \in MediaActions => w.r.action = w.at /\ w.target = 0
  /\ w.at \in SeekStages \cup {"media_seek", "media_seek_relative"} => SeekOK
  /\ w.at = "poll" => PollOK
  /\ w.at = "answer" => AnswerOK

\* What a reply says is true.
MediaTold(m) ==
  LET w == m.work r == w.r reply == m.reply IN
  reply.ok /\ "reached" \in DOMAIN reply =>
    /\ IsAllowed(reply.reached) /\ r.player \in {NoPlayer, reply.reached}
    /\ /\ "landed" \in DOMAIN reply /\ m.calm /\ r.arg <= MaxI64
       /\ Seekable(reply.reached)
       => reply.landed - reply.position \in 0..2 * m.took
    /\ "turned" \in DOMAIN reply /\ m.calm /\ Kind(reply.reached).lag < 4
         => reply.turned = reply.playing
    /\ "shown" \in DOMAIN reply =>
         /\ ~reply.ahead
         /\ \A f \in Fields : /\ f \in w.given => reply.meta[f] = w.track
                              /\ reply.settled => reply.meta[f] \in {Unknown, w.track}

MediaInv ==
  /\ MediaTyped
  /\ mediaWork # NoRequest => MediaWorkOK
  /\ \A p \in Names \ interrupted : Steady(p)
  /\ \A i \in DOMAIN mediaReply : MediaTold(mediaReply[i])

\* A player is of one of the kinds there are.
LEMMA KindKnown ==
  ASSUME NEW p \in Names
  PROVE  Kind(p) \in [name : STRING, reports : BOOLEAN, setpos : BOOLEAN, tracks : BOOLEAN,
                      lag : Nat, cannot : SUBSET STRING]
<1>1. PICK i \in DOMAIN MediaPlayers : MediaPlayers[i].name = p
  BY DEF Names
<1>2. (CHOOSE j \in DOMAIN MediaPlayers : MediaPlayers[j].name = p) \in DOMAIN MediaPlayers
  BY <1>1
<1>3. PICK T : T = [name : STRING, reports : BOOLEAN, setpos : BOOLEAN, tracks : BOOLEAN,
                    lag : Nat, cannot : SUBSET STRING]
  OBVIOUS
<1>4. MediaPlayers \in Seq(T)
  BY <1>3, MediaAssumption
<1>5. \A j \in DOMAIN MediaPlayers : MediaPlayers[j] \in T
  BY <1>4
<1> QED
  BY <1>2, <1>3, <1>5 DEF Kind

LEMMA RepliesTrue ==
  ASSUME MediaInv, allowed' = allowed,
         \/ mediaReply' \in {<<>>, mediaReply}
         \/ \E m : mediaReply' = <<m>> /\ MediaTold(m)
  PROVE  (\A i \in DOMAIN mediaReply : MediaTold(mediaReply[i]))'
<1>1. \A m : MediaTold(m)' <=> MediaTold(m)
  BY DEF MediaTold, IsAllowed
<1>2. CASE mediaReply' \in {<<>>, mediaReply}
  BY <1>1, <1>2 DEF MediaInv
<1>3. CASE \E m : mediaReply' = <<m>> /\ MediaTold(m)
  BY <1>1, <1>3
<1> QED
  BY <1>2, <1>3

\* Signals come in order, one by one.
LEMMA PosSignalled ==
  ASSUME NEW q \in Seq(MediaSignals), NEW s \in MediaSignals, NEW x \in Nat, NEW y \in Nat
  PROVE  /\ Append(q, s) \in Seq(MediaSignals)
         /\ IsPos(s) /\ s.pos <= y => PosTold(Append(q, s), y) /\ ~NoPos(Append(q, s))
         /\ ~IsPos(s) /\ PosTold(q, x) /\ x <= y => PosTold(Append(q, s), y)
         /\ NoPos(Append(q, s)) => NoPos(q) /\ ~IsPos(s)
         /\ PosTold(q, x) /\ x <= y => PosTold(q, y)
<1> DEFINE a == Append(q, s)
<1>1. /\ a \in Seq(MediaSignals) /\ Len(q) \in Nat /\ Len(a) = Len(q) + 1
      /\ \A i \in 1..Len(q) : a[i] = q[i] /\ a[Len(q) + 1] = s
      /\ a[Len(q) + 1] = s
  OBVIOUS
<1>2. \A t \in MediaSignals : IsPos(t) => t.pos \in Nat
  BY DEF IsPos, MediaSignals
<1>3. \A i \in 1..Len(q) : q[i] \in MediaSignals
  OBVIOUS
<1> HIDE DEF a
<1>4. IsPos(s) /\ s.pos <= y => PosTold(a, y) /\ ~NoPos(a)
  BY <1>1 DEF PosTold, NoPos
<1>5. ~IsPos(s) /\ PosTold(q, x) /\ x <= y => PosTold(a, y)
  <2> SUFFICES ASSUME ~IsPos(s), PosTold(q, x), x <= y, NEW i \in 1..Len(a), IsPos(a[i]),
                      \A j \in i + 1..Len(a) : ~IsPos(a[j])
               PROVE  a[i].pos <= y
    BY DEF PosTold
  <2>1. i \in 1..Len(q)
    BY <1>1
  <2>2. \A j \in i + 1..Len(q) : ~IsPos(q[j])
    BY <1>1, <2>1
  <2>3. q[i].pos <= x /\ q[i].pos \in Nat
    BY <1>1, <1>2, <1>3, <2>1, <2>2 DEF PosTold
  <2> QED
    BY <1>1, <2>1, <2>3
<1>6. NoPos(a) => NoPos(q) /\ ~IsPos(s)
  BY <1>1 DEF NoPos
<1>7. PosTold(q, x) /\ x <= y => PosTold(q, y)
  <2> SUFFICES ASSUME PosTold(q, x), x <= y, NEW i \in 1..Len(q), IsPos(q[i]),
                      \A j \in i + 1..Len(q) : ~IsPos(q[j])
               PROVE  q[i].pos <= y
    BY DEF PosTold
  <2>1. q[i].pos <= x /\ q[i].pos \in Nat
    BY <1>2, <1>3 DEF PosTold
  <2> QED
    BY <2>1
<1> QED
  BY <1>1, <1>4, <1>5, <1>6, <1>7 DEF a

LEMMA RateSignalled ==
  ASSUME NEW q \in Seq(MediaSignals), NEW s \in MediaSignals, NEW x \in Nat, NEW y \in Nat
  PROVE  /\ IsRate(s) /\ s.rate <= y => RateTold(Append(q, s), y) /\ ~NoRate(Append(q, s))
         /\ ~IsRate(s) /\ RateTold(q, x) => RateTold(Append(q, s), x)
         /\ NoRate(Append(q, s)) => NoRate(q) /\ ~IsRate(s)
<1> DEFINE a == Append(q, s)
<1>1. /\ Len(q) \in Nat /\ Len(a) = Len(q) + 1
      /\ \A i \in 1..Len(q) : a[i] = q[i] /\ a[Len(q) + 1] = s
      /\ a[Len(q) + 1] = s
  OBVIOUS
<1> HIDE DEF a
<1>4. IsRate(s) /\ s.rate <= y => RateTold(a, y) /\ ~NoRate(a)
  BY <1>1 DEF RateTold, NoRate
<1>5. ~IsRate(s) /\ RateTold(q, x) => RateTold(a, x)
  <2> SUFFICES ASSUME ~IsRate(s), RateTold(q, x), NEW i \in 1..Len(a), IsRate(a[i]),
                      \A j \in i + 1..Len(a) : ~IsRate(a[j])
               PROVE  a[i].rate <= x
    BY DEF RateTold
  <2>1. i \in 1..Len(q)
    BY <1>1
  <2>2. \A j \in i + 1..Len(q) : ~IsRate(q[j])
    BY <1>1, <2>1
  <2> QED
    BY <1>1, <2>1, <2>2 DEF RateTold
<1>6. NoRate(a) => NoRate(q) /\ ~IsRate(s)
  BY <1>1 DEF NoRate
<1> QED
  BY <1>4, <1>5, <1>6 DEF a

LEMMA SignalHeard ==
  ASSUME NEW q \in Seq(MediaSignals), q # <<>>, NEW x \in Nat, NEW y \in Nat
  PROVE  /\ Tail(q) \in Seq(MediaSignals) /\ Head(q) \in MediaSignals
         /\ \A i \in 1..Len(Tail(q)) : i + 1 \in 1..Len(q) /\ Tail(q)[i] = q[i + 1]
         /\ Head(q) = q[1] /\ 1 \in 1..Len(q)
         /\ PosTold(q, x) => PosTold(Tail(q), x)
         /\ RateTold(q, y) => RateTold(Tail(q), y)
         /\ PosTold(q, x) /\ NoPos(Tail(q)) /\ IsPos(Head(q)) => Head(q).pos <= x
         /\ RateTold(q, y) /\ NoRate(Tail(q)) /\ IsRate(Head(q)) => Head(q).rate <= y
         /\ NoPos(Tail(q)) /\ ~IsPos(Head(q)) => NoPos(q)
         /\ NoRate(Tail(q)) /\ ~IsRate(Head(q)) => NoRate(q)
<1> DEFINE a == Tail(q)
<1>1. /\ a \in Seq(MediaSignals) /\ Len(q) \in Nat /\ Len(q) >= 1 /\ Len(a) = Len(q) - 1
      /\ \A i \in 1..Len(q) - 1 : a[i] = q[i + 1]
      /\ Head(q) = q[1] /\ q[1] \in MediaSignals
  OBVIOUS
<1> HIDE DEF a
<1>2. \A j \in 2..Len(q) : j - 1 \in 1..Len(a) /\ a[j - 1] = q[j]
  BY <1>1
<1>3. ASSUME NEW i \in 1..Len(a)
      PROVE  /\ i + 1 \in 1..Len(q) /\ a[i] = q[i + 1]
             /\ \A j \in (i + 1) + 1..Len(q) : j - 1 \in i + 1..Len(a) /\ q[j] = a[j - 1]
  BY <1>1, <1>2
<1>4. PosTold(q, x) => PosTold(a, x)
  <2> SUFFICES ASSUME PosTold(q, x), NEW i \in 1..Len(a), IsPos(a[i]),
                      \A j \in i + 1..Len(a) : ~IsPos(a[j])
               PROVE  a[i].pos <= x
    BY DEF PosTold
  <2>1. \A j \in (i + 1) + 1..Len(q) : ~IsPos(q[j])
    BY <1>3
  <2> QED
    BY <1>3, <2>1 DEF PosTold
<1>5. RateTold(q, y) => RateTold(a, y)
  <2> SUFFICES ASSUME RateTold(q, y), NEW i \in 1..Len(a), IsRate(a[i]),
                      \A j \in i + 1..Len(a) : ~IsRate(a[j])
               PROVE  a[i].rate <= y
    BY DEF RateTold
  <2>1. \A j \in (i + 1) + 1..Len(q) : ~IsRate(q[j])
    BY <1>3
  <2> QED
    BY <1>3, <2>1 DEF RateTold
<1>6. PosTold(q, x) /\ NoPos(a) /\ IsPos(Head(q)) => Head(q).pos <= x
  <2>1. NoPos(a) => \A j \in 1 + 1..Len(q) : ~IsPos(q[j])
    BY <1>2 DEF NoPos
  <2> QED
    BY <1>1, <2>1 DEF PosTold
<1>7. RateTold(q, y) /\ NoRate(a) /\ IsRate(Head(q)) => Head(q).rate <= y
  <2>1. NoRate(a) => \A j \in 1 + 1..Len(q) : ~IsRate(q[j])
    BY <1>2 DEF NoRate
  <2> QED
    BY <1>1, <2>1 DEF RateTold
<1>8. NoPos(a) /\ ~IsPos(Head(q)) => NoPos(q)
  BY <1>1, <1>2 DEF NoPos
<1>9. NoRate(a) /\ ~IsRate(Head(q)) => NoRate(q)
  BY <1>1, <1>2 DEF NoRate
<1> QED
  BY <1>1, <1>3, <1>4, <1>5, <1>6, <1>7, <1>8, <1>9 DEF a

LEMMA WorkKnown ==
  ASSUME MediaInv, mediaWork # NoRequest
  PROVE  /\ MediaWorkOK /\ mediaWork.player \in Names /\ mediaWork.r \in MediaRequests
         /\ mediaWork.events \in Nat /\ mediaWork.since \in Nat /\ mediaWork.since <= mediaNow
         /\ mediaWork.events <= playerEvents
         /\ mediaWork.at \in MidStages \/ mediaWork.at = "answer"
         /\ mediaWork.at \in MidStages => mediaWork \in MidWork
         /\ mediaWork.at \notin MidStages => mediaWork \in AnswerWork
         /\ ~MediaAt("idle")
<1>1. MediaWorkOK /\ mediaWork \in MidWork \cup AnswerWork
  BY DEF MediaInv, MediaWorkOK
<1>2. "answer" \notin MidStages /\ "idle" \notin MidStages
  BY DEF MidStages, MediaActions, SeekStages
<1>3. CASE mediaWork \in MidWork
  BY <1>1, <1>2, <1>3 DEF MediaWorkOK, MidWork, MediaAt
<1>4. CASE mediaWork \in AnswerWork
  BY <1>1, <1>2, <1>4 DEF MediaWorkOK, AnswerWork, MediaAt
<1> QED
  BY <1>1, <1>3, <1>4

\* A request stays what it is while time passes and players go on.
LEMMA WorkKept ==
  ASSUME MediaInv, mediaWork' = mediaWork, allowed' = allowed,
         mediaNow' \in Nat, mediaNow' >= mediaNow,
         playerEvents' \in {playerEvents, playerEvents + 1}, interrupted \subseteq interrupted',
         NEW p, p = mediaWork.player,
         mediaWork # NoRequest /\ playerEvents' = playerEvents =>
           /\ players'[p].up = players[p].up /\ players'[p].playing = players[p].playing
           /\ players'[p].stale = players[p].stale /\ players'[p].track = players[p].track
           /\ players'[p].pos \in Nat
           /\ players'[p].pos - players[p].pos \in 0..2 * (mediaNow' - mediaNow),
         mediaWork # NoRequest /\ mediaWork.at = "answer" /\ p \notin interrupted' =>
           /\ players'[p].rate = players[p].rate
           /\ players'[p].pos \in Nat /\ players'[p].pos >= players[p].pos
  PROVE  (mediaWork # NoRequest => MediaWorkOK)'
<1> SUFFICES ASSUME mediaWork # NoRequest
             PROVE  MediaWorkOK'
  OBVIOUS
<1>1. /\ MediaWorkOK /\ p \in Names /\ mediaWork.events \in Nat /\ mediaWork.since \in Nat
      /\ mediaWork.since <= mediaNow /\ mediaWork.events <= playerEvents
      /\ mediaWork.at \in MidStages => mediaWork \in MidWork
      /\ mediaWork.at \notin MidStages => mediaWork \in AnswerWork
  BY WorkKnown
<1>2. players[p].pos \in Nat /\ mediaNow \in Nat /\ playerEvents \in Nat
  BY <1>1 DEF MediaInv, MediaTyped, PlayerStates
<1>3. playerEvents' # playerEvents => ~Calm'
  BY <1>1, <1>2 DEF Calm
<1>4. playerEvents' = playerEvents => (Calm' <=> Calm)
  BY DEF Calm
<1>5. mediaWork.at \in SeekStages \cup {"media_seek", "media_seek_relative"} /\ SeekOK => SeekOK'
  <2> SUFFICES ASSUME mediaWork.at \in SeekStages \cup {"media_seek", "media_seek_relative"}, SeekOK
               PROVE  SeekOK'
    OBVIOUS
  <2>1. mediaWork.target \in Int /\ mediaWork.track \in Int
    BY <1>1 DEF MidStages, MediaActions, SeekStages, MidWork
  <2>2. ASSUME mediaWork.at = "offset", Calm', Kind(p).reports
        PROVE  players'[p].pos - (mediaWork.target - mediaWork.track) \in 0..2 * (mediaNow' - mediaWork.since)
    <3>1. /\ players[p].pos - (mediaWork.target - mediaWork.track) \in 0..2 * (mediaNow - mediaWork.since)
          /\ players'[p].pos \in Nat
          /\ players'[p].pos - players[p].pos \in 0..2 * (mediaNow' - mediaNow)
      BY <1>3, <1>4, <2>2 DEF SeekOK
    <3> QED
      BY <1>1, <1>2, <2>1, <3>1
  <2>3. mediaWork.at = "set" /\ Calm' => mediaWork.track = players'[p].track
    BY <1>3, <1>4 DEF SeekOK
  <2> QED
    BY <2>2, <2>3 DEF SeekOK
<1>6. PollOK => PollOK'
  <2>1. Calm' => /\ Calm /\ players'[p].up = players[p].up /\ players'[p].playing = players[p].playing
                 /\ players'[p].stale = players[p].stale
    BY <1>3, <1>4
  <2> QED
    BY <2>1 DEF PollOK
<1>7. mediaWork.at = "answer" /\ AnswerOK => AnswerOK'
  <2> SUFFICES ASSUME mediaWork.at = "answer", AnswerOK
               PROVE  AnswerOK'
    OBVIOUS
  <2>1. mediaWork.raw \in Nat
    BY <1>1 DEF MidStages, MediaActions, SeekStages, AnswerWork
  <2>2. p \notin interrupted' => mediaWork.raw <= players'[p].pos /\ mediaWork.rate = players'[p].rate
    BY <1>2, <2>1 DEF AnswerOK
  <2> QED
    BY <2>2 DEF AnswerOK
<1>8. mediaWork.events <= playerEvents' /\ mediaWork.since <= mediaNow'
  BY <1>1, <1>2
<1>9. ValidMedia(mediaWork.r)' <=> ValidMedia(mediaWork.r)
  BY DEF ValidMedia, Level
<1> QED
  BY <1>1, <1>5, <1>6, <1>7, <1>8, <1>9 DEF MediaWorkOK, IsAllowed

LEMMA StoredCaches ==
  ASSUME NEW p, NEW entry, Stored(p, entry), mediaNow' = mediaNow
  PROVE  Cached(p)' = entry /\ \A q : q # p => Cached(q)' = Cached(q)
<1>1. posCache' = [q \in DOMAIN posCache \cup {p} |-> IF q = p THEN entry ELSE posCache[q]]
  BY DEF Stored
<1>2. DOMAIN posCache' = DOMAIN posCache \cup {p} /\ posCache'[p] = entry
      /\ \A q \in DOMAIN posCache : q # p => posCache'[q] = posCache[q]
  BY <1>1
<1> QED
  BY <1>2 DEF Cached

LEMMA CacheKnown ==
  ASSUME MediaInv, NEW p \in Names
  PROVE  /\ Cached(p).pos \in Nat /\ Cached(p).rate \in 0..2 /\ Cached(p).at \in 0..mediaNow
         /\ Cached(p) \in MediaCaches
BY DEF MediaInv, MediaTyped, MediaCaches

\* What has not changed for a player leaves it as steady as it was.
LEMMA SteadySame ==
  ASSUME NEW p \in Names, Steady(p), MediaTyped, mediaNow' = mediaNow,
         Cached(p)' = Cached(p), metaCache'[p] = metaCache[p], signals'[p] = signals[p],
         players'[p].up = players[p].up, players'[p].playing = players[p].playing,
         players'[p].track = players[p].track, players'[p].pos = players[p].pos,
         players'[p].rate = players[p].rate
  PROVE  Steady(p)'
BY DEF Steady

LEMMA CacheSame ==
  ASSUME posCache' = posCache, mediaNow' = mediaNow, NEW p
  PROVE  Cached(p)' = Cached(p)
BY DEF Cached

LEMMA TypedSame ==
  ASSUME MediaTyped, mediaNow' = mediaNow, posCache' = posCache, metaCache' = metaCache,
         playerEvents' \in {playerEvents, playerEvents + 1},
         players' \in [Names -> PlayerStates], signals' \in [Names -> Seq(MediaSignals)]
  PROVE  MediaTyped'
<1>1. \A p : Cached(p)' = Cached(p)
  BY CacheSame
<1> QED
  BY <1>1 DEF MediaTyped

LEMMA Passes ==
  ASSUME MediaInv, Tick
  PROVE  MediaInv'
<1> USE DEF MediaInv
<1>1. /\ mediaNow' = mediaNow + 1 /\ mediaNow \in Nat
      /\ players' = [p \in Names |-> IF players[p].playing
                          THEN [players[p] EXCEPT !.pos = @ + players[p].rate] ELSE players[p]]
      /\ allowed' = allowed /\ signals' = signals /\ posCache' = posCache /\ metaCache' = metaCache
      /\ mediaWork' = mediaWork /\ interrupted' = interrupted /\ playerEvents' = playerEvents
      /\ mediaReply' = <<>>
  BY DEF Tick, NoReply, MediaTyped
<1>2. ASSUME NEW p \in Names
      PROVE  /\ players[p] \in PlayerStates /\ players'[p] \in PlayerStates
             /\ players'[p].up = players[p].up /\ players'[p].playing = players[p].playing
             /\ players'[p].stale = players[p].stale /\ players'[p].track = players[p].track
             /\ players'[p].rate = players[p].rate
             /\ players'[p].pos = players[p].pos + (IF players[p].playing THEN players[p].rate ELSE 0)
  <2>1. players[p] \in PlayerStates
    BY DEF MediaTyped
  <2>2. players'[p] = IF players[p].playing THEN [players[p] EXCEPT !.pos = @ + players[p].rate] ELSE players[p]
    BY <1>1
  <2> QED
    BY <2>1, <2>2 DEF PlayerStates
<1>3. ASSUME NEW p \in Names
      PROVE  /\ Cached(p)'.pos = Cached(p).pos /\ Cached(p)'.rate = Cached(p).rate
             /\ \/ Cached(p)'.at = Cached(p).at /\ p \in DOMAIN posCache
                \/ Cached(p)'.at = mediaNow + 1 /\ Cached(p).pos = 0
  BY <1>1 DEF Cached
<1>4. MediaTyped'
  <2>1. \A p \in Names : players'[p] \in PlayerStates
    BY <1>2
  <2>2. players' \in [Names -> PlayerStates]
    BY <1>1, <2>1
  <2>3. \A p \in Names : Cached(p)' \in MediaCaches /\ Cached(p)'.at <= mediaNow'
    <3> TAKE p \in Names
    <3>1. Cached(p) \in MediaCaches /\ Cached(p).at <= mediaNow
      BY DEF MediaTyped
    <3>2. Cached(p)' \in {Cached(p), [pos |-> 0, rate |-> 1, at |-> mediaNow + 1]}
      BY <1>1 DEF Cached
    <3> QED
      BY <1>1, <3>1, <3>2 DEF MediaCaches
  <2> QED
    BY <1>1, <2>2, <2>3 DEF MediaTyped
<1>5. ASSUME NEW p \in Names \ interrupted'
      PROVE  Steady(p)'
  <2>1. Steady(p) /\ players[p].playing /\ p \in Names
    BY <1>1 DEF Steady
  <2>2. players[p].pos \in Nat /\ players[p].rate \in {1, 2} /\ signals[p] \in Seq(MediaSignals)
    BY <1>2 DEF PlayerStates, MediaTyped
  <2>3. players'[p].pos = players[p].pos + players[p].rate /\ players'[p].pos \in Nat
    BY <1>2, <2>1, <2>2
  <2>4. PosTold(signals[p], players'[p].pos)
    <3>1. {1, 2} \subseteq Nat /\ [pos |-> 0] \in MediaSignals
      BY DEF MediaSignals
    <3>2. players[p].pos <= players'[p].pos
      BY <2>2, <2>3
    <3> QED
      BY <2>1, <2>2, <2>3, <3>1, <3>2, PosSignalled DEF Steady
  <2>5. /\ Cached(p).pos \in Nat /\ Cached(p).rate \in 0..2 /\ Cached(p).at \in 0..mediaNow
    BY <1>1, <2>1 DEF MediaTyped, MediaCaches
  <2>6. NoPos(signals[p]) => Cached(p)'.pos <= players'[p].pos
    BY <1>3, <2>1, <2>2, <2>3, <2>5 DEF Steady
  <2>7. NoPos(signals[p]) /\ NoRate(signals[p]) =>
          Cached(p)'.pos + (mediaNow' - Cached(p)'.at) * Cached(p)'.rate <= players'[p].pos
    <3> SUFFICES ASSUME NoPos(signals[p]), NoRate(signals[p])
                 PROVE  Cached(p)'.pos + (mediaNow' - Cached(p)'.at) * Cached(p)'.rate <= players'[p].pos
      OBVIOUS
    <3>1. /\ Cached(p).pos + (mediaNow - Cached(p).at) * Cached(p).rate <= players[p].pos
          /\ Cached(p).rate <= players[p].rate
      BY <2>1 DEF Steady
    <3>2. CASE Cached(p)'.at = Cached(p).at
      <4>1. PICK d \in Nat : d = mediaNow - Cached(p).at
        BY <1>1, <2>5
      <4>2. mediaNow' - Cached(p)'.at = d + 1
        BY <1>1, <2>5, <3>2, <4>1
      <4>3. (d + 1) * Cached(p).rate = d * Cached(p).rate + Cached(p).rate
        BY <2>5, <4>1
      <4>4. PICK e \in Nat : e = d * Cached(p).rate
        BY <2>5
      <4> QED
        <5>1. (mediaNow' - Cached(p)'.at) * Cached(p)'.rate = e + Cached(p).rate
          BY <1>3, <2>1, <4>2, <4>3, <4>4
        <5>2. Cached(p).pos + e <= players[p].pos
          BY <3>1, <4>1, <4>4
        <5>3. players[p].rate \in Nat /\ Cached(p).rate \in Nat
          BY <2>2, <2>5
        <5>4. PICK x \in Nat, y \in Nat, z \in Nat, w \in Nat :
                /\ x = Cached(p).pos /\ y = Cached(p).rate /\ z = players[p].pos /\ w = players[p].rate
          BY <2>2, <2>5, <5>3
        <5>5. x + e <= z /\ y <= w
          BY <3>1, <5>2, <5>4
        <5>6. x + (e + y) <= z + w
          BY <4>4, <5>4, <5>5
        <5>7. Cached(p)'.pos = x /\ players'[p].pos = z + w
          BY <1>3, <2>1, <2>3, <5>4
        <5>8. (mediaNow' - Cached(p)'.at) * Cached(p)'.rate = e + y
          BY <5>1, <5>4
        <5> QED
          BY <5>6, <5>7, <5>8
    <3>3. CASE Cached(p)'.at = mediaNow + 1 /\ Cached(p).pos = 0
      <4>1. mediaNow' - Cached(p)'.at = 0
        BY <1>1, <3>3
      <4> QED
        BY <1>3, <2>3, <2>5, <3>3, <4>1
    <3> QED
      BY <1>3, <2>1, <3>2, <3>3
  <2> QED
    BY <1>1, <1>2, <1>3, <2>1, <2>4, <2>6, <2>7 DEF Steady
<1>6. (mediaWork # NoRequest => MediaWorkOK)'
  <2>1. PICK p : p = mediaWork.player
    OBVIOUS
  <2>2. mediaWork # NoRequest => p \in Names
    BY <2>1, WorkKnown
  <2>3. mediaWork # NoRequest =>
           /\ players'[p].up = players[p].up /\ players'[p].playing = players[p].playing
           /\ players'[p].stale = players[p].stale /\ players'[p].track = players[p].track
           /\ players'[p].rate = players[p].rate
           /\ players'[p].pos \in Nat /\ players'[p].pos >= players[p].pos
           /\ players'[p].pos - players[p].pos \in 0..2 * (mediaNow' - mediaNow)
    <3> HAVE mediaWork # NoRequest
    <3>1. players[p].pos \in Nat /\ players[p].rate \in {1, 2} /\ players[p].playing \in BOOLEAN
      BY <1>2, <2>2 DEF PlayerStates
    <3> QED
      BY <1>1, <1>2, <2>2, <3>1, SMTT(30)
  <2>4. mediaNow' >= mediaNow /\ mediaNow' \in Nat
    BY <1>1
  <2> QED
    BY <1>1, <2>1, <2>3, <2>4, WorkKept
<1> QED
  BY <1>1, <1>4, <1>5, <1>6, RepliesTrue

\* What users do to one player leaves the rest alone.
LEMMA EventKeeps ==
  ASSUME MediaInv, NEW p \in Names, PlayerEvent(p), NEW s \in PlayerStates,
         players' = [players EXCEPT ![p] = s],
         signals' \in [Names -> Seq(MediaSignals)],
         \A q \in Names \ {p} : signals'[q] = signals[q],
         interrupted' \in {interrupted, interrupted \cup {p}},
         p \notin interrupted' => Steady(p)' /\ ~(mediaWork.at = "answer" /\ mediaWork.player = p)
  PROVE  MediaInv'
<1>1. /\ mediaNow' = mediaNow /\ mediaNow \in Nat /\ playerEvents \in Nat
      /\ playerEvents' = playerEvents + 1 /\ allowed' = allowed /\ posCache' = posCache
      /\ metaCache' = metaCache /\ mediaWork' = mediaWork /\ mediaReply' = <<>>
  BY DEF PlayerEvent, NoReply, MediaInv, MediaTyped
<1>2. players' \in [Names -> PlayerStates]
  BY DEF MediaInv, MediaTyped
<1>3. MediaTyped'
  BY <1>1, <1>2, TypedSame DEF MediaInv
<1>4. ASSUME NEW q \in Names \ interrupted'
      PROVE  Steady(q)'
  <2>1. CASE q = p
    BY <1>4, <2>1
  <2>2. CASE q # p
    <3>1. players'[q] = players[q] /\ Steady(q)
      BY <1>2, <2>2 DEF MediaInv, MediaTyped
    <3> QED
      BY <1>1, <2>2, <3>1, CacheSame, SteadySame DEF MediaInv
  <2> QED
    BY <2>1, <2>2
<1>5. (mediaWork # NoRequest => MediaWorkOK)'
  <2>1. PICK q : q = mediaWork.player
    OBVIOUS
  <2>2. mediaWork # NoRequest => q \in Names
    BY <2>1, WorkKnown
  <2>3. mediaWork # NoRequest /\ mediaWork.at = "answer" /\ q \notin interrupted' =>
           /\ players'[q].rate = players[q].rate
           /\ players'[q].pos \in Nat /\ players'[q].pos >= players[q].pos
    <3> HAVE mediaWork # NoRequest /\ mediaWork.at = "answer" /\ q \notin interrupted'
    <3>1. q # p
      BY <2>1
    <3>2. players'[q] = players[q] /\ players[q].pos \in Nat
      BY <2>2, <3>1 DEF MediaInv, MediaTyped, PlayerStates
    <3> QED
      BY <3>2
  <2>4. playerEvents' # playerEvents /\ mediaNow' >= mediaNow
    BY <1>1
  <2> QED
    BY <1>1, <2>1, <2>3, <2>4, WorkKept
<1> QED
  BY <1>1, <1>3, <1>4, <1>5, RepliesTrue DEF MediaInv

\* Of a player that is not steady nothing more is asked.
LEMMA PausesKeep ==
  ASSUME MediaInv, NEW p \in Names, UserPause(p) \/ NextTrack(p) \/ Vanish(p)
  PROVE  MediaInv'
<1>1. players[p] \in PlayerStates /\ players \in [Names -> PlayerStates]
      /\ signals \in [Names -> Seq(MediaSignals)]
  BY DEF MediaInv, MediaTyped
<1>2. PlayerEvent(p) /\ interrupted' = interrupted \cup {p}
  BY DEF UserPause, NextTrack, Vanish
<1>3. PICK s \in PlayerStates : players' = [players EXCEPT ![p] = s]
  <2>1. CASE UserPause(p)
    <3>1. players' = [players EXCEPT ![p] = [players[p] EXCEPT !.playing = ~@]]
      BY <1>1, <2>1 DEF UserPause
    <3>2. [players[p] EXCEPT !.playing = ~@] \in PlayerStates
      BY <1>1 DEF PlayerStates
    <3> QED
      BY <3>1, <3>2
  <2>2. CASE NextTrack(p)
    <3>1. players' = [players EXCEPT ![p] = [players[p] EXCEPT !.track = @ + 1, !.pos = 0]]
      BY <1>1, <2>2 DEF NextTrack
    <3>2. [players[p] EXCEPT !.track = @ + 1, !.pos = 0] \in PlayerStates
      <4>1. PICK t \in Nat \ {0} : t = players[p].track + 1
        BY <1>1 DEF PlayerStates
      <4>2. [players[p] EXCEPT !.track = t, !.pos = 0] \in PlayerStates
        BY <1>1 DEF PlayerStates
      <4> QED
        BY <4>1, <4>2
    <3> QED
      BY <3>1, <3>2
  <2>3. CASE Vanish(p)
    <3>1. players' = [players EXCEPT ![p] = [players[p] EXCEPT !.up = FALSE, !.playing = FALSE]]
      BY <1>1, <2>3 DEF Vanish
    <3>2. [players[p] EXCEPT !.up = FALSE, !.playing = FALSE] \in PlayerStates
      BY <1>1 DEF PlayerStates
    <3> QED
      BY <3>1, <3>2
  <2> QED
    BY <2>1, <2>2, <2>3
<1>4. signals' \in [Names -> Seq(MediaSignals)] /\ \A q \in Names \ {p} : signals'[q] = signals[q]
  <2>1. CASE UserPause(p)
    <3>1. [playing |-> ~players[p].playing] \in MediaSignals
      BY DEF MediaSignals
    <3>2. Append(signals[p], [playing |-> ~players[p].playing]) \in Seq(MediaSignals)
      BY <1>1, <3>1
    <3>3. \/ signals' = signals
          \/ signals' = [signals EXCEPT ![p] = Append(signals[p], [playing |-> ~players[p].playing])]
      BY <2>1 DEF UserPause, Signalled
    <3> QED
      BY <1>1, <3>2, <3>3
  <2>2. CASE NextTrack(p)
    BY <1>1, <2>2 DEF NextTrack
  <2>3. CASE Vanish(p)
    <3>1. <<>> \in Seq(MediaSignals) /\ signals' = [signals EXCEPT ![p] = <<>>]
      BY <2>3 DEF Vanish
    <3> QED
      BY <1>1, <3>1
  <2> QED
    BY <2>1, <2>2, <2>3
<1> QED
  BY <1>2, <1>3, <1>4, EventKeeps

\* A steady player that is moved, with a watcher to hear of it, stays steady.
LEMMA MovedSteady ==
  ASSUME MediaInv, NEW p \in Names, Steady(p), NEW to \in Nat, mediaNow' = mediaNow,
         posCache' = posCache, metaCache' = metaCache,
         players' = [players EXCEPT ![p] = [players[p] EXCEPT !.pos = to]],
         signals'[p] = Append(signals[p], [pos |-> to])
  PROVE  Steady(p)'
<1>1. players[p] \in PlayerStates /\ signals[p] \in Seq(MediaSignals)
      /\ players \in [Names -> PlayerStates]
  BY DEF MediaInv, MediaTyped
<1>2. /\ players'[p].up = players[p].up /\ players'[p].playing = players[p].playing
      /\ players'[p].track = players[p].track /\ players'[p].pos = to
      /\ players'[p].rate = players[p].rate
  BY <1>1 DEF PlayerStates
<1>3. PICK s \in MediaSignals : s = [pos |-> to]
  BY DEF MediaSignals
<1>4. IsPos(s) /\ ~IsRate(s) /\ s.pos = to /\ "playing" \notin DOMAIN s
  BY <1>3 DEF IsPos, IsRate
<1>5. players[p].rate \in Nat /\ players[p].pos \in Nat
  BY <1>1 DEF PlayerStates
<1>6. PosTold(signals'[p], to) /\ ~NoPos(signals'[p])
  BY <1>1, <1>3, <1>4, PosSignalled
<1>7. RateTold(signals'[p], players[p].rate) /\ (NoRate(signals'[p]) => NoRate(signals[p]))
  BY <1>1, <1>3, <1>4, <1>5, RateSignalled DEF Steady
<1>8. \A i \in 1..Len(signals'[p]) : "playing" \in DOMAIN signals'[p][i] => signals'[p][i].playing
  <2>1. /\ Len(signals[p]) \in Nat /\ Len(signals'[p]) = Len(signals[p]) + 1
        /\ \A i \in 1..Len(signals[p]) : signals'[p][i] = signals[p][i]
        /\ signals'[p][Len(signals[p]) + 1] = s
    BY <1>1, <1>3
  <2> QED
    BY <1>4, <2>1 DEF Steady
<1>9. Cached(p)' = Cached(p)
  BY CacheSame
<1> QED
  BY <1>2, <1>6, <1>7, <1>8, <1>9 DEF Steady

LEMMA SeeksKeep ==
  ASSUME MediaInv, NEW p \in Names, NEW pos \in SeekTargets, UserSeek(p, pos)
  PROVE  MediaInv'
<1>1. /\ players[p] \in PlayerStates /\ players \in [Names -> PlayerStates]
      /\ signals \in [Names -> Seq(MediaSignals)] /\ pos \in Nat
  BY MediaAssumption DEF MediaInv, MediaTyped
<1>2. PICK s \in PlayerStates : s = [players[p] EXCEPT !.pos = pos]
  BY <1>1 DEF PlayerStates
<1>3. players' = [players EXCEPT ![p] = s]
  BY <1>1, <1>2 DEF UserSeek
<1>4. /\ PlayerEvent(p) /\ interrupted' \in {interrupted, interrupted \cup {p}}
      /\ mediaNow' = mediaNow /\ posCache' = posCache /\ metaCache' = metaCache
  BY DEF UserSeek, Overheard, PlayerEvent
<1>5. \/ signals' = signals
      \/ signals' = [signals EXCEPT ![p] = Append(signals[p], [pos |-> pos])]
  BY DEF UserSeek, Signalled
<1>6. signals' \in [Names -> Seq(MediaSignals)] /\ \A q \in Names \ {p} : signals'[q] = signals[q]
  <2>1. [pos |-> pos] \in MediaSignals
    BY <1>1 DEF MediaSignals
  <2>2. Append(signals[p], [pos |-> pos]) \in Seq(MediaSignals)
    BY <1>1, <2>1
  <2> QED
    BY <1>1, <1>5, <2>2
<1>7. ASSUME p \notin interrupted'
      PROVE  Steady(p)' /\ ~(mediaWork.at = "answer" /\ mediaWork.player = p)
  <2>1. ~Unnoticed(p) /\ p \notin interrupted
    BY <1>7 DEF UserSeek, Overheard
  <2>2. signals'[p] = Append(signals[p], [pos |-> pos])
    BY <1>1, <2>1 DEF UserSeek, Signalled, Unnoticed
  <2> QED
    BY <1>1, <1>2, <1>3, <1>4, <2>1, <2>2, MovedSteady DEF MediaInv, Unnoticed
<1> QED
  BY <1>3, <1>4, <1>6, <1>7, EventKeeps

LEMMA RatesKeep ==
  ASSUME MediaInv, NEW p \in Names, UserRate(p)
  PROVE  MediaInv'
<1>1. /\ players[p] \in PlayerStates /\ players \in [Names -> PlayerStates]
      /\ signals \in [Names -> Seq(MediaSignals)] /\ players[p].rate \in {1, 2}
  BY DEF MediaInv, MediaTyped, PlayerStates
<1>2. PICK rate \in {1, 2} : rate = 3 - players[p].rate
  BY <1>1
<1>3. PICK s \in PlayerStates : s = [players[p] EXCEPT !.rate = rate]
  BY <1>1 DEF PlayerStates
<1>4. players' = [players EXCEPT ![p] = s]
  BY <1>1, <1>2, <1>3 DEF UserRate
<1>5. /\ PlayerEvent(p) /\ interrupted' \in {interrupted, interrupted \cup {p}}
      /\ mediaNow' = mediaNow /\ posCache' = posCache /\ metaCache' = metaCache
  BY DEF UserRate, Overheard, PlayerEvent
<1>6. PICK t \in MediaSignals : t = [rate |-> rate]
  BY DEF MediaSignals
<1>7. signals' = signals \/ signals' = [signals EXCEPT ![p] = Append(signals[p], t)]
  BY <1>2, <1>6 DEF UserRate, Signalled
<1>8. signals' \in [Names -> Seq(MediaSignals)] /\ \A q \in Names \ {p} : signals'[q] = signals[q]
  <2>1. Append(signals[p], t) \in Seq(MediaSignals)
    BY <1>1
  <2> QED
    BY <1>1, <1>7, <2>1
<1>9. ASSUME p \notin interrupted'
      PROVE  Steady(p)' /\ ~(mediaWork.at = "answer" /\ mediaWork.player = p)
  <2>1. ~Unnoticed(p) /\ p \notin interrupted /\ Steady(p)
    BY <1>9 DEF UserRate, Overheard, MediaInv
  <2>2. signals'[p] = Append(signals[p], t) /\ signals[p] \in Seq(MediaSignals)
    BY <1>1, <1>2, <1>6, <2>1 DEF UserRate, Signalled, Unnoticed
  <2>3. IsRate(t) /\ ~IsPos(t) /\ t.rate = rate /\ "playing" \notin DOMAIN t
    BY <1>6 DEF IsPos, IsRate
  <2>4. /\ players'[p].up = players[p].up /\ players'[p].playing = players[p].playing
        /\ players'[p].track = players[p].track /\ players'[p].pos = players[p].pos
        /\ players'[p].rate = rate /\ players[p].pos \in Nat
    BY <1>1, <1>3, <1>4 DEF PlayerStates
  <2>5. PosTold(signals'[p], players[p].pos) /\ (NoPos(signals'[p]) => NoPos(signals[p]))
    BY <2>1, <2>2, <2>3, <2>4, PosSignalled DEF Steady
  <2>6. RateTold(signals'[p], rate) /\ ~NoRate(signals'[p])
    <3>1. rate \in Nat
      OBVIOUS
    <3> QED
      BY <2>2, <2>3, <3>1, RateSignalled
  <2>7. \A i \in 1..Len(signals'[p]) : "playing" \in DOMAIN signals'[p][i] => signals'[p][i].playing
    <3>1. /\ Len(signals[p]) \in Nat /\ Len(signals'[p]) = Len(signals[p]) + 1
          /\ \A i \in 1..Len(signals[p]) : signals'[p][i] = signals[p][i]
          /\ signals'[p][Len(signals[p]) + 1] = t
      BY <2>2
    <3> QED
      BY <2>1, <2>3, <3>1, SMTT(30) DEF Steady
  <2>8. Cached(p)' = Cached(p)
    BY <1>5, CacheSame
  <2> QED
    BY <1>5, <2>1, <2>4, <2>5, <2>6, <2>7, <2>8 DEF Steady, Unnoticed
<1> QED
  BY <1>4, <1>5, <1>8, <1>9, EventKeeps

LEMMA ScanKeeps ==
  ASSUME MediaInv, Scan
  PROVE  MediaInv'
<1>1. /\ mediaNow' = mediaNow /\ mediaNow \in Nat /\ playerEvents' = playerEvents /\ allowed' = allowed
      /\ posCache' = posCache /\ metaCache' = metaCache /\ mediaWork' = mediaWork
      /\ mediaReply' = <<>> /\ players' = players /\ signals' = signals
      /\ interrupted' = interrupted
  BY DEF Scan, NoReply, MediaInv, MediaTyped
<1>2. MediaTyped'
  BY <1>1, TypedSame DEF MediaInv, MediaTyped
<1>3. ASSUME NEW q \in Names \ interrupted'
      PROVE  Steady(q)'
  BY <1>1, CacheSame, SteadySame DEF MediaInv
<1>4. (mediaWork # NoRequest => MediaWorkOK)'
  <2>1. PICK q : q = mediaWork.player
    OBVIOUS
  <2>2. mediaWork # NoRequest => players[q].pos \in Nat
    BY <2>1, WorkKnown DEF MediaInv, MediaTyped, PlayerStates
  <2>3. mediaWork # NoRequest =>
           players'[q].pos - players[q].pos \in 0..2 * (mediaNow' - mediaNow)
    BY <1>1, <2>2
  <2>4. mediaNow' >= mediaNow /\ (mediaWork # NoRequest => players'[q].pos >= players[q].pos)
    BY <1>1, <2>2
  <2> QED
    BY <1>1, <2>1, <2>2, <2>3, <2>4, WorkKept
<1> QED
  BY <1>1, <1>2, <1>3, <1>4, RepliesTrue DEF MediaInv

LEMMA CacheEntry ==
  ASSUME NEW c \in MediaCaches, NEW x, NEW y
  PROVE  /\ [c EXCEPT !.pos = x, !.at = y] = [pos |-> x, rate |-> c.rate, at |-> y]
         /\ [c EXCEPT !.rate = x, !.at = y] = [pos |-> c.pos, rate |-> x, at |-> y]
<1>1. DOMAIN c = {"pos", "rate", "at"} /\ c = [i \in {"pos", "rate", "at"} |-> c[i]]
  BY DEF MediaCaches
<1>2. ASSUME NEW e, e = [[c EXCEPT !.pos = x] EXCEPT !.at = y]
      PROVE  e = [pos |-> x, rate |-> c.rate, at |-> y]
  <2>1. e = [i \in {"pos", "rate", "at"} |-> e[i]] /\ DOMAIN e = {"pos", "rate", "at"}
    BY <1>1, <1>2
  <2>2. e["pos"] = x /\ e["rate"] = c.rate /\ e["at"] = y
    BY <1>1, <1>2
  <2> QED
    BY <2>1, <2>2
<1>3. ASSUME NEW e, e = [[c EXCEPT !.rate = x] EXCEPT !.at = y]
      PROVE  e = [pos |-> c.pos, rate |-> x, at |-> y]
  <2>1. e = [i \in {"pos", "rate", "at"} |-> e[i]] /\ DOMAIN e = {"pos", "rate", "at"}
    BY <1>1, <1>3
  <2>2. e["rate"] = x /\ e["pos"] = c.pos /\ e["at"] = y
    BY <1>1, <1>3
  <2> QED
    BY <2>1, <2>2
<1> QED
  BY <1>2, <1>3

\* A signal is noted: what it told is at hand, the others are still to come.
LEMMA NotesKeep ==
  ASSUME MediaInv, NEW p \in Names, Note(p)
  PROVE  MediaInv'
<1>1. /\ mediaNow' = mediaNow /\ mediaNow \in Nat /\ playerEvents' = playerEvents /\ allowed' = allowed
      /\ metaCache' = metaCache /\ mediaWork' = mediaWork /\ mediaReply' = <<>>
      /\ players' = players /\ interrupted' = interrupted
      /\ signals[p] # <<>> /\ signals' = [signals EXCEPT ![p] = Tail(@)]
  BY DEF Note, NoReply, MediaInv, MediaTyped
<1>2. /\ signals \in [Names -> Seq(MediaSignals)] /\ signals[p] \in Seq(MediaSignals)
      /\ players[p].pos \in Nat /\ players[p].rate \in {1, 2}
  BY DEF MediaInv, MediaTyped, PlayerStates
<1>3. PICK q : q = signals[p]
  OBVIOUS
<1>4. PICK s : s = Head(q)
  OBVIOUS
<1>5. /\ Tail(q) \in Seq(MediaSignals) /\ s \in MediaSignals
      /\ \A i \in 1..Len(Tail(q)) : i + 1 \in 1..Len(q) /\ Tail(q)[i] = q[i + 1]
      /\ s = q[1] /\ 1 \in 1..Len(q)
  BY <1>1, <1>2, <1>3, <1>4, SignalHeard
<1>6. signals' \in [Names -> Seq(MediaSignals)] /\ signals'[p] = Tail(q)
      /\ \A r \in Names \ {p} : signals'[r] = signals[r]
  BY <1>1, <1>2, <1>3, <1>5
<1>7. PICK c : c = Cached(p)
  OBVIOUS
<1>8. c.pos \in Nat /\ c.rate \in 0..2 /\ c.at \in 0..mediaNow
  BY <1>7, CacheKnown
<1>9. IsPos(s) => s.pos \in Nat /\ ~IsRate(s) /\ "playing" \notin DOMAIN s
  BY <1>5 DEF IsPos, IsRate, MediaSignals
<1>10. IsRate(s) => s.rate \in {1, 2} /\ ~IsPos(s) /\ "playing" \notin DOMAIN s
  BY <1>5 DEF IsPos, IsRate, MediaSignals
<1>11. \A x, y : /\ [c EXCEPT !.pos = x, !.at = y] = [pos |-> x, rate |-> c.rate, at |-> y]
                /\ [c EXCEPT !.rate = x, !.at = y] = [pos |-> c.pos, rate |-> x, at |-> y]
  BY <1>7, CacheKnown, CacheEntry
\* The entry as it is after the signal.
<1>12. PICK e \in MediaCaches :
          /\ Cached(p)' = e /\ e.at <= mediaNow
          /\ \A r : r # p => Cached(r)' = Cached(r)
          /\ CASE IsPos(s) -> e.pos = s.pos /\ e.rate = c.rate /\ e.at = mediaNow
               [] IsRate(s) -> e.pos = c.pos /\ e.rate = s.rate /\ e.at = mediaNow
               [] "playing" \in DOMAIN s /\ ~s.playing -> TRUE
               [] OTHER -> e = c
  <2>0. /\ IsPos(s) => ~IsRate(s) /\ "playing" \notin DOMAIN s
        /\ IsRate(s) => ~IsPos(s) /\ "playing" \notin DOMAIN s
        /\ mediaNow <= mediaNow
    BY <1>1, <1>9, <1>10
  <2>1. CASE IsPos(s)
    <3>1. PICK e : e = [pos |-> s.pos, rate |-> c.rate, at |-> mediaNow]
      OBVIOUS
    <3>2. Stored(p, [c EXCEPT !.pos = s.pos, !.at = mediaNow])
      BY <1>3, <1>4, <1>7, <2>0, <2>1 DEF Note, IsPos, IsRate
    <3>3. Stored(p, e)
      BY <1>11, <3>1, <3>2
    <3>4. e \in MediaCaches /\ e.pos = s.pos /\ e.rate = c.rate /\ e.at = mediaNow
      BY <1>1, <1>8, <1>9, <2>1, <3>1 DEF MediaCaches
    <3>5. Cached(p)' = e /\ \A r : r # p => Cached(r)' = Cached(r)
      BY <1>1, <3>3, StoredCaches
    <3> QED
      BY <2>0, <2>1, <3>4, <3>5
  <2>2. CASE IsRate(s)
    <3>1. PICK e : e = [pos |-> c.pos, rate |-> s.rate, at |-> mediaNow]
      OBVIOUS
    <3>2. Stored(p, [c EXCEPT !.rate = s.rate, !.at = mediaNow])
      BY <1>3, <1>4, <1>7, <2>0, <2>2 DEF Note, IsPos, IsRate
    <3>3. Stored(p, e)
      BY <1>11, <3>1, <3>2
    <3>4. e \in MediaCaches /\ e.pos = c.pos /\ e.rate = s.rate /\ e.at = mediaNow
      BY <1>1, <1>8, <1>10, <2>2, <3>1 DEF MediaCaches
    <3>5. Cached(p)' = e /\ \A r : r # p => Cached(r)' = Cached(r)
      BY <1>1, <3>3, StoredCaches
    <3> QED
      BY <2>0, <2>2, <3>4, <3>5
  <2>3. CASE "playing" \in DOMAIN s /\ ~s.playing
    <3>1. PICK e : e = [pos |-> c.pos, rate |-> 0, at |-> mediaNow]
      OBVIOUS
    <3>2. Stored(p, [c EXCEPT !.rate = 0, !.at = mediaNow])
      BY <1>3, <1>4, <1>7, <2>0, <2>3 DEF Note, IsPos, IsRate
    <3>3. Stored(p, e)
      BY <1>11, <3>1, <3>2
    <3>4. e \in MediaCaches /\ e.at = mediaNow
      BY <1>1, <1>8, <3>1 DEF MediaCaches
    <3>5. Cached(p)' = e /\ \A r : r # p => Cached(r)' = Cached(r)
      BY <1>1, <3>3, StoredCaches
    <3> QED
      BY <2>0, <2>3, <3>4, <3>5
  <2>4. CASE ~IsPos(s) /\ ~IsRate(s) /\ ~("playing" \in DOMAIN s /\ ~s.playing)
    <3>1. posCache' = posCache
      BY <1>3, <1>4, <2>4 DEF Note, IsPos, IsRate
    <3>2. \A r : Cached(r)' = Cached(r)
      BY <1>1, <3>1, CacheSame
    <3>3. c \in MediaCaches /\ c.at <= mediaNow /\ Cached(p)' = c
      BY <1>1, <1>7, <1>8, <3>2, CacheKnown
    <3> QED
      BY <2>4, <3>2, <3>3
  <2> QED
    BY <2>1, <2>2, <2>3, <2>4
<1>13. MediaTyped'
  <2>1. \A r \in Names : Cached(r)' \in MediaCaches /\ Cached(r)'.at <= mediaNow
    BY <1>12 DEF MediaInv, MediaTyped
  <2> QED
    BY <1>1, <1>6, <2>1 DEF MediaInv, MediaTyped
<1>14. ASSUME p \notin interrupted
       PROVE  Steady(p)'
  <2>1. Steady(p)
    BY <1>14 DEF MediaInv
  <2>2. /\ PosTold(q, players[p].pos) /\ RateTold(q, players[p].rate)
        /\ NoPos(q) => c.pos <= players[p].pos
        /\ NoRate(q) => c.rate <= players[p].rate
        /\ NoPos(q) /\ NoRate(q) => c.pos + (mediaNow - c.at) * c.rate <= players[p].pos
        /\ "playing" \in DOMAIN s => s.playing
    BY <1>3, <1>5, <1>7, <2>1 DEF Steady
  <2>3. /\ PosTold(Tail(q), players[p].pos) /\ RateTold(Tail(q), players[p].rate)
        /\ NoPos(Tail(q)) /\ IsPos(s) => s.pos <= players[p].pos
        /\ NoRate(Tail(q)) /\ IsRate(s) => s.rate <= players[p].rate
        /\ NoPos(Tail(q)) /\ ~IsPos(s) => NoPos(q)
        /\ NoRate(Tail(q)) /\ ~IsRate(s) => NoRate(q)
    <3>1. players[p].rate \in Nat
      BY <1>2
    <3> QED
      BY <1>1, <1>2, <1>3, <1>4, <2>2, <3>1, SignalHeard
  <2>4. \A i \in 1..Len(Tail(q)) : "playing" \in DOMAIN Tail(q)[i] => Tail(q)[i].playing
    BY <1>3, <1>5, <2>1 DEF Steady
  <2>5. NoPos(Tail(q)) => e.pos <= players[p].pos
    BY <1>9, <1>10, <1>12, <2>2, <2>3
  <2>6. NoRate(Tail(q)) => e.rate <= players[p].rate
    BY <1>9, <1>10, <1>12, <2>2, <2>3
  <2>7. NoPos(Tail(q)) /\ NoRate(Tail(q)) => e.pos + (mediaNow - e.at) * e.rate <= players[p].pos
    <3>1. CASE IsPos(s) \/ IsRate(s)
      <4>1. e.pos \in Nat /\ e.rate \in Nat /\ e.at = mediaNow
        BY <1>9, <1>10, <1>12, <3>1 DEF MediaCaches
      <4>2. (mediaNow - e.at) * e.rate = 0
        BY <1>1, <4>1
      <4> QED
        BY <1>2, <2>5, <4>1, <4>2
    <3>2. CASE ~IsPos(s) /\ ~IsRate(s)
      <4>1. e = c
        BY <1>12, <2>2, <3>2
      <4> QED
        BY <2>2, <2>3, <3>2, <4>1
    <3> QED
      BY <3>1, <3>2
  <2> QED
    BY <1>1, <1>6, <1>12, <2>1, <2>3, <2>4, <2>5, <2>6, <2>7 DEF Steady
<1>15. ASSUME NEW r \in Names \ interrupted'
       PROVE  Steady(r)'
  <2>1. CASE r = p
    BY <1>1, <1>14, <1>15, <2>1
  <2>2. CASE r # p
    BY <1>1, <1>6, <1>12, <2>2, SteadySame DEF MediaInv
  <2> QED
    BY <2>1, <2>2
<1>16. (mediaWork # NoRequest => MediaWorkOK)'
  <2>1. PICK r : r = mediaWork.player
    OBVIOUS
  <2>2. mediaWork # NoRequest => players[r].pos \in Nat
    BY <2>1, WorkKnown DEF MediaInv, MediaTyped, PlayerStates
  <2>3. mediaWork # NoRequest =>
           players'[r].pos - players[r].pos \in 0..2 * (mediaNow' - mediaNow)
    BY <1>1, <2>2
  <2>4. mediaNow' >= mediaNow /\ (mediaWork # NoRequest => players'[r].pos >= players[r].pos)
    BY <1>1, <2>2
  <2> QED
    BY <1>1, <2>1, <2>2, <2>3, <2>4, WorkKept
<1> QED
  BY <1>1, <1>13, <1>15, <1>16, RepliesTrue DEF MediaInv

\* The player a request is for is on the bus, allowed, and the one it names.
LEMMA ResolvedKnown ==
  ASSUME NEW x, Resolved(x) # NoPlayer
  PROVE  /\ Resolved(x) \in Listed /\ Resolved(x) \in Names /\ IsAllowed(Resolved(x))
         /\ x \in {NoPlayer, Resolved(x)}
<1>1. Listed # {} => FirstListed \in Listed
  <2> HAVE Listed # {}
  <2>1. PICK T : MediaPlayers \in Seq(T)
    BY MediaAssumption
  <2>2. DEFINE S == {i \in 1..Len(MediaPlayers) : MediaPlayers[i].name \in Listed}
  <2>3. Len(MediaPlayers) \in Nat /\ DOMAIN MediaPlayers = 1..Len(MediaPlayers)
    BY <2>1
  <2>4. S \subseteq Nat /\ S # {}
    BY <2>3 DEF Listed, OnBus, Names
  <2>5. PICK i \in S : \A j \in S : i <= j
    BY <2>4, LeastElement
  <2>6. \A j \in 1..i - 1 : MediaPlayers[j].name \notin Listed
    BY <2>3, <2>5
  <2>7. \E k \in DOMAIN MediaPlayers : /\ MediaPlayers[k].name \in Listed
                                       /\ \A j \in 1..k - 1 : MediaPlayers[j].name \notin Listed
    BY <2>3, <2>5, <2>6
  <2> QED
    BY <2>7 DEF FirstListed
<1>2. Resolved(x) \in Listed /\ x \in {NoPlayer, Resolved(x)}
  BY <1>1 DEF Resolved
<1> QED
  BY <1>2 DEF Listed, OnBus

\* A step of the plugin that calls no player and notes nothing.
LEMMA WorldSame ==
  ASSUME MediaInv, UNCHANGED <<mediaWorld, posCache, metaCache>>
  PROVE  /\ MediaTyped' /\ (\A p \in Names \ interrupted : Steady(p))'
         /\ allowed' = allowed /\ mediaNow' = mediaNow /\ players' = players
         /\ playerEvents' = playerEvents /\ interrupted' = interrupted /\ mediaNow \in Nat
         /\ playerEvents \in Nat
<1>1. /\ mediaNow' = mediaNow /\ players' = players /\ allowed' = allowed /\ signals' = signals
      /\ interrupted' = interrupted /\ playerEvents' = playerEvents
      /\ posCache' = posCache /\ metaCache' = metaCache
  BY DEF mediaWorld
<1>2. MediaTyped /\ MediaTyped'
  BY <1>1, TypedSame DEF MediaInv, MediaTyped
<1>3. ASSUME NEW q \in Names \ interrupted'
      PROVE  Steady(q)'
  BY <1>1, <1>2, <1>3, CacheSame, SteadySame DEF MediaInv
<1> QED
  BY <1>1, <1>2, <1>3 DEF MediaTyped

LEMMA TakesKeep ==
  ASSUME MediaInv, NEW r \in MediaRequests, MediaTake(r)
  PROVE  MediaInv'
<1>1. /\ MediaTyped' /\ (\A p \in Names \ interrupted : Steady(p))' /\ allowed' = allowed
      /\ mediaNow' = mediaNow /\ playerEvents' = playerEvents /\ mediaNow \in Nat /\ playerEvents \in Nat
      /\ players' = players
  BY WorldSame DEF MediaTake
<1>2. mediaWork = NoRequest
  BY WorkKnown DEF MediaTake
<1>3. PICK p : p = Resolved(r.player)
  OBVIOUS
<1>4. PICK work : work = [at |-> r.action, r |-> r, player |-> p, target |-> 0, track |-> Unknown,
                          read |-> FALSE, events |-> playerEvents, since |-> mediaNow]
  OBVIOUS
<1>5. \/ Kept(work, [ok |-> TRUE, players |-> Listed]) /\ UNCHANGED mediaWork
      \/ Kept(work, MediaRefused) /\ UNCHANGED mediaWork
      \/ r.action # "media_list_players" /\ ValidMedia(r) /\ p # NoPlayer /\ MediaGoto(work)
  BY <1>3, <1>4 DEF MediaTake
<1>6. CASE mediaWork' = mediaWork
    /\ (Kept(work, [ok |-> TRUE, players |-> Listed]) \/ Kept(work, MediaRefused))
  <2>1. PICK reply \in {[ok |-> TRUE, players |-> Listed], MediaRefused} : Kept(work, reply)
    BY <1>6
  <2>2. ~(reply.ok /\ "reached" \in DOMAIN reply)
    BY DEF MediaRefused
  <2>3. PICK m : /\ mediaReply' = <<m>>
                 /\ m = [work |-> work, reply |-> reply, calm |-> playerEvents = work.events,
                         took |-> mediaNow - work.since]
    BY <2>1 DEF Kept
  <2>4. MediaTold(m)
    <3>1. m.reply = reply
      BY <2>3
    <3> QED
      BY <2>2, <3>1 DEF MediaTold
  <2> QED
    BY <1>1, <1>2, <1>6, <2>3, <2>4, RepliesTrue DEF MediaInv
<1>7. CASE r.action # "media_list_players" /\ ValidMedia(r) /\ p # NoPlayer /\ MediaGoto(work)
  <2>1. p \in Names /\ IsAllowed(p) /\ r.player \in {NoPlayer, p}
    BY <1>3, <1>7, ResolvedKnown
  <2>2. r.action \in MediaActions \ {"media_list_players"}
    BY <1>7, MediaAssumption
  <2>3. work \in MidWork
    BY <1>1, <1>4, <2>1, <2>2 DEF MidWork, MidStages, Unknown
  <2>4. r.action \in {"media_seek", "media_seek_relative"} => r.arg \in Int
    BY <1>7, MediaAssumption DEF ValidMedia
  <2>5. r.action \notin SeekStages \cup {"poll", "answer"}
    BY <2>2 DEF MediaActions, SeekStages
  <2>6. /\ work.at = r.action /\ work.r = r /\ work.player = p /\ work.events = playerEvents
        /\ work.since = mediaNow /\ work.target = 0
    BY <1>4
  <2>7. mediaWork' = work /\ mediaReply' = <<>>
    BY <1>7 DEF MediaGoto, NoReply
  <2>8. r.action \in {"media_seek", "media_seek_relative"} => SeekOK'
    <3>1. \A stage \in SeekStages : r.action # stage
      BY <2>5
    <3> QED
      BY <2>4, <2>6, <2>7, <3>1 DEF SeekOK, SeekStages
  <2>9. MediaWorkOK'
    <3>0. ValidMedia(r)' <=> ValidMedia(r)
      BY DEF ValidMedia, Level
    <3>1. ValidMedia(r)' /\ IsAllowed(p)'
      BY <1>1, <1>7, <2>1, <3>0 DEF IsAllowed
    <3>2. playerEvents <= playerEvents /\ mediaNow <= mediaNow
      BY <1>1
    <3> QED
      BY <1>1, <2>1, <2>3, <2>5, <2>6, <2>7, <2>8, <3>1, <3>2 DEF MediaWorkOK
  <2> QED
    BY <1>1, <2>7, <2>9, RepliesTrue DEF MediaInv
<1> QED
  BY <1>5, <1>6, <1>7

\* What a reply to the request being served has to say.
ReplyTrue(reply) ==
  reply.ok /\ "reached" \in DOMAIN reply =>
    /\ reply.reached = mediaWork.player
    /\ "landed" \in DOMAIN reply /\ Calm /\ mediaWork.r.arg <= MaxI64 /\ Seekable(mediaWork.player)
         => reply.landed - reply.position \in 0..2 * (mediaNow - mediaWork.since)
    /\ "turned" \in DOMAIN reply /\ Calm /\ Kind(mediaWork.player).lag < 4
         => reply.turned = reply.playing
    /\ "shown" \in DOMAIN reply =>
         /\ ~reply.ahead
         /\ \A f \in Fields : /\ f \in mediaWork.given => reply.meta[f] = mediaWork.track
                              /\ reply.settled => reply.meta[f] \in {Unknown, mediaWork.track}

LEMMA RepliesAs ==
  ASSUME MediaInv, mediaWork # NoRequest, allowed' = allowed,
         NEW reply, MediaReply(reply), ReplyTrue(reply)
  PROVE  /\ (mediaWork # NoRequest => MediaWorkOK)'
         /\ (\A i \in DOMAIN mediaReply : MediaTold(mediaReply[i]))'
<1>1. mediaWork' = NoRequest
  BY DEF MediaReply
<1>2. PICK m : /\ mediaReply' = <<m>>
               /\ m = [work |-> mediaWork, reply |-> reply, calm |-> playerEvents = mediaWork.events,
                       took |-> mediaNow - mediaWork.since]
  BY DEF MediaReply, Kept
<1>3. /\ m.work = mediaWork /\ m.reply = reply /\ m.took = mediaNow - mediaWork.since
      /\ m.calm <=> Calm
  BY <1>2 DEF Calm
<1>4. IsAllowed(mediaWork.player) /\ mediaWork.r.player \in {NoPlayer, mediaWork.player}
  BY WorkKnown DEF MediaWorkOK
<1>5. MediaTold(m)
  BY <1>3, <1>4 DEF MediaTold, ReplyTrue
<1> QED
  BY <1>1, <1>2, <1>5, RepliesTrue

LEMMA Refusals ==
  ASSUME MediaInv, mediaWork # NoRequest, allowed' = allowed, MediaReply(MediaRefused)
  PROVE  /\ (mediaWork # NoRequest => MediaWorkOK)'
         /\ (\A i \in DOMAIN mediaReply : MediaTold(mediaReply[i]))'
<1>1. ReplyTrue(MediaRefused)
  BY DEF ReplyTrue, MediaRefused
<1> QED
  BY <1>1, RepliesAs

\* What the plugin does to one player leaves the rest alone.
LEMMA TouchesKeep ==
  ASSUME MediaInv, NEW p \in Names, NEW s \in PlayerStates, players' = [players EXCEPT ![p] = s],
         signals' \in [Names -> Seq(MediaSignals)], \A q \in Names \ {p} : signals'[q] = signals[q],
         interrupted \subseteq interrupted', p \notin interrupted' => Steady(p)',
         mediaNow' = mediaNow, posCache' = posCache, metaCache' = metaCache,
         playerEvents' = playerEvents
  PROVE  /\ MediaTyped' /\ (\A q \in Names \ interrupted : Steady(q))'
         /\ players'[p] = s /\ \A q \in Names \ {p} : players'[q] = players[q]
<1>1. players \in [Names -> PlayerStates]
  BY DEF MediaInv, MediaTyped
<1>2. /\ players' \in [Names -> PlayerStates] /\ players'[p] = s
      /\ \A q \in Names \ {p} : players'[q] = players[q]
  BY <1>1
<1>3. MediaTyped'
  BY <1>2, TypedSame DEF MediaInv
<1>4. ASSUME NEW q \in Names \ interrupted'
      PROVE  Steady(q)'
  <2>1. CASE q = p
    BY <1>4, <2>1
  <2>2. CASE q # p
    BY <1>2, <1>4, <2>2, CacheSame, SteadySame DEF MediaInv
  <2> QED
    BY <2>1, <2>2
<1> QED
  BY <1>2, <1>3, <1>4

\* A steady player that says it plays stays steady.
LEMMA PlayingSteady ==
  ASSUME MediaInv, NEW p \in Names, Steady(p), mediaNow' = mediaNow, posCache' = posCache,
         metaCache' = metaCache, players'[p] = players[p],
         signals'[p] \in {signals[p], Append(signals[p], [playing |-> TRUE])}
  PROVE  Steady(p)'
<1>1. players[p] \in PlayerStates /\ signals[p] \in Seq(MediaSignals)
  BY DEF MediaInv, MediaTyped
<1>2. CASE signals'[p] = signals[p]
  BY <1>2, CacheSame, SteadySame DEF MediaInv
<1>3. CASE signals'[p] = Append(signals[p], [playing |-> TRUE])
  <2>1. PICK s \in MediaSignals : s = [playing |-> TRUE]
    BY DEF MediaSignals
  <2>2. ~IsPos(s) /\ ~IsRate(s) /\ s.playing
    BY <2>1 DEF IsPos, IsRate
  <2>3. players[p].rate \in Nat /\ players[p].pos \in Nat
    BY <1>1 DEF PlayerStates
  <2>4. PosTold(signals'[p], players[p].pos) /\ (NoPos(signals'[p]) => NoPos(signals[p]))
    BY <1>1, <1>3, <2>1, <2>2, <2>3, PosSignalled DEF Steady
  <2>5. RateTold(signals'[p], players[p].rate) /\ (NoRate(signals'[p]) => NoRate(signals[p]))
    BY <1>1, <1>3, <2>1, <2>2, <2>3, RateSignalled DEF Steady
  <2>6. \A i \in 1..Len(signals'[p]) : "playing" \in DOMAIN signals'[p][i] => signals'[p][i].playing
    <3>1. /\ Len(signals[p]) \in Nat /\ Len(signals'[p]) = Len(signals[p]) + 1
          /\ \A i \in 1..Len(signals[p]) : signals'[p][i] = signals[p][i]
          /\ signals'[p][Len(signals[p]) + 1] = s
      BY <1>1, <1>3, <2>1
    <3> QED
      BY <2>2, <3>1 DEF Steady
  <2>7. Cached(p)' = Cached(p)
    BY CacheSame
  <2> QED
    BY <2>4, <2>5, <2>6, <2>7 DEF Steady
<1> QED
  BY <1>2, <1>3

LEMMA SignalsTyped ==
  ASSUME MediaInv, NEW p \in Names, NEW s \in MediaSignals, Signalled(p, s)
  PROVE  /\ signals' \in [Names -> Seq(MediaSignals)]
         /\ \A q \in Names \ {p} : signals'[q] = signals[q]
         /\ signals'[p] \in {signals[p], Append(signals[p], s)}
         /\ p \in watchers => signals'[p] = Append(signals[p], s)
<1>1. signals \in [Names -> Seq(MediaSignals)] /\ Append(signals[p], s) \in Seq(MediaSignals)
  BY DEF MediaInv, MediaTyped
<1> QED
  BY <1>1 DEF Signalled

\* play, pause, next, prev, stop.
LEMMA ControlKeeps ==
  ASSUME MediaInv, MediaControl
  PROVE  MediaInv'
<1>1. /\ mediaNow' = mediaNow /\ allowed' = allowed /\ posCache' = posCache /\ metaCache' = metaCache
      /\ playerEvents' = playerEvents
  BY DEF MediaControl
<1>2. mediaWork.at \in {"media_play", "media_pause", "media_next", "media_prev", "media_stop"}
      /\ mediaWork # NoRequest
  BY DEF MediaControl, Capability, NoRequest
<1>3. PICK p \in Names : p = Target
  BY <1>2, WorkKnown DEF Target
<1>4. players[p] \in PlayerStates /\ players \in [Names -> PlayerStates]
  BY DEF MediaInv, MediaTyped
<1>5. CASE ~CanDo(Capability[mediaWork.at])
  <2>1. MediaReply(MediaRefused) /\ UNCHANGED <<players, signals, interrupted>>
    BY <1>5 DEF MediaControl
  <2>2. players' = [players EXCEPT ![p] = players[p]]
    BY <1>4, <2>1
  <2>3. signals' \in [Names -> Seq(MediaSignals)]
    BY <2>1 DEF MediaInv, MediaTyped
  <2>4. p \notin interrupted' => Steady(p)'
    BY <1>1, <2>1, CacheSame, SteadySame DEF MediaInv
  <2>5. MediaTyped' /\ (\A q \in Names \ interrupted : Steady(q))'
    BY <1>1, <1>4, <2>1, <2>2, <2>3, <2>4, TouchesKeep
  <2> QED
    BY <1>1, <1>2, <2>1, <2>5, Refusals DEF MediaInv
<1>6. CASE CanDo(Capability[mediaWork.at])
  <2>1. PICK next : next = Called(mediaWork.at, players[p])
    OBVIOUS
  <2>2. /\ players' = [players EXCEPT ![p] = next]
        /\ Signalled(p, [playing |-> next.playing])
        /\ interrupted' = IF next = players[p] THEN interrupted ELSE interrupted \cup {p}
        /\ MediaReply([ok |-> TRUE, reached |-> p])
    BY <1>3, <1>6, <2>1 DEF MediaControl
  <2>3. next \in PlayerStates
    <3>1. \A t \in Nat \ {0} : /\ [players[p] EXCEPT !.track = t, !.pos = 0] \in PlayerStates
                               /\ [players[p] EXCEPT !.playing = TRUE] \in PlayerStates
                               /\ [players[p] EXCEPT !.playing = FALSE] \in PlayerStates
      BY <1>4 DEF PlayerStates
    <3>2. players[p].track + 1 \in Nat \ {0}
      BY <1>4 DEF PlayerStates
    <3>3. next \in {[players[p] EXCEPT !.playing = TRUE], [players[p] EXCEPT !.playing = FALSE],
                    [players[p] EXCEPT !.track = players[p].track + 1, !.pos = 0]}
      BY <1>2, <2>1 DEF Called
    <3> QED
      BY <3>1, <3>2, <3>3
  <2>4. [playing |-> next.playing] \in MediaSignals
    BY <2>3 DEF MediaSignals, PlayerStates
  <2>5. /\ signals' \in [Names -> Seq(MediaSignals)] /\ \A q \in Names \ {p} : signals'[q] = signals[q]
        /\ signals'[p] \in {signals[p], Append(signals[p], [playing |-> next.playing])}
    BY <2>2, <2>4, SignalsTyped
  <2>6. ASSUME p \notin interrupted'
        PROVE  Steady(p)'
    <3>1. next = players[p] /\ p \notin interrupted
      BY <2>2, <2>6
    <3>2. Steady(p)
      BY <3>1 DEF MediaInv
    <3>3. next.playing = TRUE
      BY <2>3, <3>1, <3>2 DEF Steady, PlayerStates
    <3> QED
      BY <1>1, <1>4, <2>2, <2>5, <3>1, <3>2, <3>3, PlayingSteady
  <2>7. MediaTyped' /\ (\A q \in Names \ interrupted : Steady(q))'
    BY <1>1, <2>2, <2>3, <2>5, <2>6, TouchesKeep
  <2>8. ReplyTrue([ok |-> TRUE, reached |-> p])
    BY <1>3 DEF ReplyTrue, Target
  <2> QED
    BY <1>1, <1>2, <2>2, <2>7, <2>8, RepliesAs DEF MediaInv
<1> QED
  BY <1>5, <1>6

\* volume, shuffle, loop.
LEMMA SetsKeep ==
  ASSUME MediaInv, MediaSet
  PROVE  MediaInv'
<1>1. /\ mediaNow' = mediaNow /\ allowed' = allowed /\ posCache' = posCache /\ metaCache' = metaCache
      /\ playerEvents' = playerEvents /\ signals' = signals /\ interrupted' = interrupted
  BY DEF MediaSet
<1>2. mediaWork.at \in {"media_volume", "media_shuffle", "media_loop"} /\ mediaWork # NoRequest
  BY DEF MediaSet, NoRequest
<1>3. PICK p \in Names : p = Target
  BY <1>2, WorkKnown DEF Target
<1>4. /\ players[p] \in PlayerStates /\ players \in [Names -> PlayerStates]
      /\ signals \in [Names -> Seq(MediaSignals)]
  BY DEF MediaInv, MediaTyped
<1>5. PICK arg : arg = mediaWork.r.arg
  OBVIOUS
<1>6. /\ Level(arg) \in Volumes
      /\ mediaWork.at = "media_loop" => LoopMode[arg.mode] \in LoopStates
  <2>1. Level(arg) \in Volumes
    BY <1>2, <1>5, WorkKnown DEF Volumes
  <2>2. mediaWork.at = "media_loop" => arg.mode \in DOMAIN LoopMode
    <3>1. "media_loop" \in MediaActions
      BY DEF MediaActions
    <3> QED
      BY <1>2, <1>5, <3>1, WorkKnown DEF MediaWorkOK, ValidMedia
  <2> QED
    BY <2>1, <2>2 DEF LoopStates
<1>7. PICK s \in PlayerStates :
         /\ players' = [players EXCEPT ![p] = s]
         /\ s.up = players[p].up /\ s.playing = players[p].playing /\ s.track = players[p].track
         /\ s.pos = players[p].pos /\ s.rate = players[p].rate
  <2>1. CASE players' = players
    BY <1>4, <2>1
  <2>2. CASE /\ mediaWork.at = "media_volume"
             /\ players' = [players EXCEPT ![p] = [players[p] EXCEPT !.volume = Level(arg)]]
    <3>1. PICK s : s = [players[p] EXCEPT !.volume = Level(arg)]
      OBVIOUS
    <3>2. s \in PlayerStates /\ s.up = players[p].up /\ s.playing = players[p].playing
          /\ s.track = players[p].track /\ s.pos = players[p].pos /\ s.rate = players[p].rate
      BY <1>4, <1>6, <2>2, <3>1 DEF PlayerStates
    <3> QED
      BY <2>2, <3>1, <3>2
  <2>3. CASE /\ mediaWork.at = "media_loop"
             /\ players' = [players EXCEPT ![p] = [players[p] EXCEPT !.loop = LoopMode[arg.mode]]]
    <3>1. PICK s : s = [players[p] EXCEPT !.loop = LoopMode[arg.mode]]
      OBVIOUS
    <3>2. s \in PlayerStates /\ s.up = players[p].up /\ s.playing = players[p].playing
          /\ s.track = players[p].track /\ s.pos = players[p].pos /\ s.rate = players[p].rate
      BY <1>4, <1>6, <2>3, <3>1 DEF PlayerStates
    <3> QED
      BY <2>3, <3>1, <3>2
  <2>4. \/ players' = players
        \/ mediaWork.at = "media_volume" /\ players' = [players EXCEPT ![p].volume = Level(arg)]
        \/ mediaWork.at = "media_loop" /\ players' = [players EXCEPT ![p].loop = LoopMode[arg.mode]]
    BY <1>3, <1>5 DEF MediaSet, MediaAt
  <2>5. CASE mediaWork.at = "media_volume" /\ players' = [players EXCEPT ![p].volume = Level(arg)]
    BY <1>4, <2>2, <2>5
  <2>6. CASE mediaWork.at = "media_loop" /\ players' = [players EXCEPT ![p].loop = LoopMode[arg.mode]]
    BY <1>4, <2>3, <2>6
  <2> QED
    BY <2>1, <2>4, <2>5, <2>6
<1>8. players'[p] = s
  BY <1>4, <1>7
<1>9. p \notin interrupted' => Steady(p)'
  BY <1>1, <1>7, <1>8, CacheSame, SteadySame DEF MediaInv
<1>10. MediaTyped' /\ (\A q \in Names \ interrupted : Steady(q))'
  BY <1>1, <1>4, <1>7, <1>9, TouchesKeep
<1>11. MediaReply(MediaRefused) \/ MediaReply([ok |-> TRUE, reached |-> p])
  BY <1>3 DEF MediaSet
<1>12. ReplyTrue([ok |-> TRUE, reached |-> p])
  BY <1>3 DEF ReplyTrue, Target
<1> QED
  BY <1>1, <1>2, <1>10, <1>11, <1>12, Refusals, RepliesAs DEF MediaInv

\* A request that goes on to its next step.
LEMMA GoesOn ==
  ASSUME MediaInv, mediaWork # NoRequest, mediaWork.at \in MidStages, allowed' = allowed,
         mediaNow' = mediaNow, playerEvents' = playerEvents,
         NEW work, MediaGoto(work), work \in MidWork, work.at \in SeekStages \cup {"poll"},
         work.r = mediaWork.r, work.player = mediaWork.player, work.events = mediaWork.events,
         work.since = mediaWork.since,
         work.at \in SeekStages => SeekOK', work.at = "poll" => PollOK'
  PROVE  /\ (mediaWork # NoRequest => MediaWorkOK)'
         /\ (\A i \in DOMAIN mediaReply : MediaTold(mediaReply[i]))'
<1>1. mediaWork' = work /\ mediaReply' = <<>>
  BY DEF MediaGoto, NoReply
<1>2. MediaWorkOK
  BY WorkKnown
<1>3. work.at \notin MediaActions \cup {"answer", "media_seek", "media_seek_relative"}
  BY DEF SeekStages, MediaActions
<1>4. work.at = "poll" => work.at \notin SeekStages
  BY DEF SeekStages
<1>5. ValidMedia(work.r)' <=> ValidMedia(work.r)
  BY DEF ValidMedia, Level
<1>6. MediaWorkOK'
  BY <1>1, <1>2, <1>3, <1>4, <1>5 DEF MediaWorkOK, IsAllowed
<1> QED
  BY <1>1, <1>6, RepliesTrue

LEMMA TurnsKeep ==
  ASSUME MediaInv, Turn
  PROVE  MediaInv'
<1>1. /\ mediaNow' = mediaNow /\ allowed' = allowed /\ posCache' = posCache /\ metaCache' = metaCache
      /\ playerEvents' = playerEvents /\ playerEvents \in Nat /\ mediaNow \in Nat
  BY DEF Turn, MediaInv, MediaTyped
<1>2. mediaWork.at = "media_play_pause" /\ mediaWork # NoRequest
  BY DEF Turn, MediaAt, NoRequest
<1>3. mediaWork.at \in MediaActions /\ mediaWork.at \in MidStages
  BY <1>2 DEF MediaActions, MidStages
<1>4. PICK p \in Names : p = Target
  BY <1>2, WorkKnown DEF Target
<1>5. /\ players[p] \in PlayerStates /\ players \in [Names -> PlayerStates]
      /\ signals \in [Names -> Seq(MediaSignals)]
  BY DEF MediaInv, MediaTyped
<1>6. CASE ~CanDo("CanPause")
  <2>1. MediaReply(MediaRefused) /\ UNCHANGED <<players, signals, interrupted>>
    BY <1>6 DEF Turn
  <2>2. players' = [players EXCEPT ![p] = players[p]]
    BY <1>5, <2>1
  <2>3. p \notin interrupted' => Steady(p)'
    BY <1>1, <2>1, CacheSame, SteadySame DEF MediaInv
  <2>4. MediaTyped' /\ (\A q \in Names \ interrupted : Steady(q))'
    BY <1>1, <1>5, <2>1, <2>2, <2>3, TouchesKeep
  <2> QED
    BY <1>1, <1>2, <2>1, <2>4, Refusals DEF MediaInv
<1>7. CASE CanDo("CanPause")
  <2>1. PICK s : s = [players[p] EXCEPT !.playing = ~@, !.stale = Kind(p).lag]
    OBVIOUS
  <2>2. PICK work : work = [mediaWork EXCEPT !.at = "poll"]
    OBVIOUS
  <2>3. /\ players' = [players EXCEPT ![p] = s]
        /\ Signalled(p, [playing |-> ~players[p].playing])
        /\ interrupted' = interrupted \cup {p} /\ MediaGoto(work)
    BY <1>4, <1>5, <1>7, <2>1, <2>2 DEF Turn
  <2>4. s \in PlayerStates /\ s.up = players[p].up /\ s.stale = Kind(p).lag /\ Kind(p).lag \in Nat
    BY <1>5, <2>1, KindKnown DEF PlayerStates
  <2>5. [playing |-> ~players[p].playing] \in MediaSignals
    BY DEF MediaSignals
  <2>6. signals' \in [Names -> Seq(MediaSignals)] /\ \A q \in Names \ {p} : signals'[q] = signals[q]
    BY <2>3, <2>5, SignalsTyped
  <2>7. /\ MediaTyped' /\ (\A q \in Names \ interrupted : Steady(q))'
        /\ players'[p] = s
    BY <1>1, <2>3, <2>4, <2>6, TouchesKeep
  <2>8. mediaWork \in MidWork /\ mediaWork.target = 0
    BY <1>2, <1>3, WorkKnown DEF MediaWorkOK
  <2>9. /\ work \in MidWork /\ work.at = "poll" /\ work.r = mediaWork.r /\ work.player = mediaWork.player
        /\ work.events = mediaWork.events /\ work.since = mediaWork.since /\ work.target = 0
    <3>1. "poll" \in MidStages
      BY DEF MidStages
    <3> QED
      BY <2>2, <2>8, <3>1 DEF MidWork
  <2>10. PollOK'
    <3>1. s.up
      BY <1>4, <1>7, <2>4 DEF CanDo, Present, OnBus
    <3>2. mediaWork' = work /\ work.player = p
      BY <1>4, <2>3, <2>9 DEF MediaGoto, Target
    <3> QED
      BY <2>4, <2>7, <2>9, <3>1, <3>2 DEF PollOK
  <2>11. work.at \notin SeekStages
    BY <2>9 DEF SeekStages
  <2> QED
    BY <1>1, <1>2, <1>3, <2>3, <2>7, <2>9, <2>10, <2>11, GoesOn DEF MediaInv
<1> QED
  BY <1>6, <1>7

\* The reads of a turned player: one that is trusted is right.
LEMMA PollsKeep ==
  ASSUME MediaInv, Poll
  PROVE  MediaInv'
<1>1. /\ mediaNow' = mediaNow /\ allowed' = allowed /\ posCache' = posCache /\ metaCache' = metaCache
      /\ playerEvents' = playerEvents /\ signals' = signals /\ interrupted' = interrupted
  BY DEF Poll
<1>2. mediaWork.at = "poll" /\ mediaWork # NoRequest
  BY DEF Poll, MediaAt, NoRequest
<1>3. mediaWork.at \in MidStages
  BY <1>2 DEF MidStages
<1>4. PICK p \in Names : p = Target /\ p = mediaWork.player
  BY <1>2, WorkKnown DEF Target
<1>5. /\ players[p] \in PlayerStates /\ players \in [Names -> PlayerStates]
      /\ signals \in [Names -> Seq(MediaSignals)]
  BY DEF MediaInv, MediaTyped
<1>6. /\ players[p].stale \in Nat /\ players[p].playing \in BOOLEAN /\ players[p].up \in BOOLEAN
      /\ Kind(p).lag \in Nat
  BY <1>5, KindKnown DEF PlayerStates
<1>7. PICK m \in Nat : m = IF players[p].stale > 0 THEN players[p].stale - 1 ELSE 0
  BY <1>6
<1>8. PICK s \in PlayerStates : /\ s = [players[p] EXCEPT !.stale = m]
                                /\ s.up = players[p].up /\ s.playing = players[p].playing
                                /\ s.track = players[p].track /\ s.pos = players[p].pos
                                /\ s.rate = players[p].rate /\ s.stale = m
  <2>1. PICK s : s = [players[p] EXCEPT !.stale = m]
    OBVIOUS
  <2>2. s \in PlayerStates /\ s.up = players[p].up /\ s.playing = players[p].playing
        /\ s.track = players[p].track /\ s.pos = players[p].pos
        /\ s.rate = players[p].rate /\ s.stale = m
    BY <1>5, <2>1 DEF PlayerStates
  <2> QED
    BY <2>1, <2>2
<1>9. players' = [players EXCEPT ![p] = s]
  BY <1>4, <1>5, <1>7, <1>8 DEF Poll
<1>10. players'[p] = s
  BY <1>5, <1>9
<1>11. p \notin interrupted' => Steady(p)'
  BY <1>1, <1>8, <1>10, CacheSame, SteadySame DEF MediaInv
<1>12. MediaTyped' /\ (\A q \in Names \ interrupted : Steady(q))'
  BY <1>1, <1>5, <1>9, <1>11, TouchesKeep
<1>13. mediaWork \in MidWork /\ PollOK
  BY <1>2, <1>3, WorkKnown DEF MediaWorkOK
<1>14. PICK target \in 0..3 : target = mediaWork.target
  BY <1>13 DEF PollOK
<1>15. PICK lag \in Nat : lag = Kind(p).lag
  BY <1>6
<1>16. PICK status : status = IF Present THEN Shown(p)
                              ELSE IF mediaWork.target = 0 THEN FALSE ELSE mediaWork.read
  OBVIOUS
<1>17. status \in BOOLEAN
  BY <1>6, <1>13, <1>16 DEF Shown, MidWork
\* If nobody else has touched the player, it still shows the old state to
\* `lag` reads, this one included.
<1>18. ASSUME Calm, lag < 4
       PROVE  /\ s.up /\ m = IF lag > target + 1 THEN lag - (target + 1) ELSE 0
              /\ status = IF lag > target THEN ~players[p].playing ELSE players[p].playing
              /\ target > 0 => /\ mediaWork.read = IF lag > 0 THEN ~players[p].playing ELSE players[p].playing
                               /\ lag > 0 => target <= lag
  <2>1. /\ players[p].up /\ players[p].stale = IF lag > target THEN lag - target ELSE 0
        /\ target > 0 => /\ mediaWork.read = IF lag > 0 THEN ~players[p].playing ELSE players[p].playing
                         /\ lag > 0 => target <= lag
    BY <1>4, <1>13, <1>14, <1>15, <1>18 DEF PollOK
  <2>2. Present
    BY <1>4, <2>1 DEF Present, OnBus
  <2>3. m = IF lag > target + 1 THEN lag - (target + 1) ELSE 0
    BY <1>7, <2>1
  <2>4. status = IF lag > target THEN ~players[p].playing ELSE players[p].playing
    BY <1>16, <2>1, <2>2 DEF Shown
  <2> QED
    BY <1>8, <2>1, <2>3, <2>4
<1>19. CASE target + 1 < 4 /\ (target = 0 \/ status = mediaWork.read)
  <2>0. PICK n \in Int : n = target + 1
    OBVIOUS
  <2>1. PICK work : work = [mediaWork EXCEPT !.target = n, !.read = status]
    OBVIOUS
  <2>2. MediaGoto(work)
    BY <1>4, <1>14, <1>16, <1>19, <2>0, <2>1 DEF Poll, Polls
  <2>3. /\ work \in MidWork /\ work.at = "poll" /\ work.r = mediaWork.r /\ work.player = p
        /\ work.events = mediaWork.events /\ work.since = mediaWork.since
        /\ work.target = target + 1 /\ work.read = status
    BY <1>2, <1>4, <1>13, <1>17, <2>0, <2>1 DEF MidWork
  <2>4. mediaWork' = work /\ (Calm' <=> Calm)
    BY <1>1, <2>2, <2>3 DEF MediaGoto, Calm
  <2>5. ASSUME Calm, lag < 4
        PROVE  /\ s.up /\ s.stale = IF lag > target + 1 THEN lag - (target + 1) ELSE 0
               /\ status = IF lag > 0 THEN ~s.playing ELSE s.playing
               /\ lag > 0 => target + 1 <= lag
    <3>1. CASE target = 0
      BY <1>8, <1>18, <2>5, <3>1
    <3>2. CASE target > 0 /\ lag > 0
      <4>1. status = mediaWork.read /\ mediaWork.read = ~players[p].playing
        BY <1>18, <1>19, <2>5, <3>2
      <4>2. lag > target
        BY <1>6, <1>18, <2>5, <4>1
      <4> QED
        BY <1>8, <1>18, <2>5, <3>2, <4>1, <4>2
    <3>3. CASE target > 0 /\ lag = 0
      BY <1>8, <1>18, <2>5, <3>3
    <3> QED
      BY <3>1, <3>2, <3>3
  <2>6. PollOK'
    <3>1. target + 1 \in 0..3
      BY <1>19
    <3> QED
      BY <1>10, <1>15, <2>3, <2>4, <2>5, <3>1 DEF PollOK
  <2>7. "poll" \notin SeekStages
    BY DEF SeekStages
  <2> QED
    BY <1>1, <1>2, <1>3, <1>4, <1>12, <2>2, <2>3, <2>6, <2>7, GoesOn DEF MediaInv
<1>20. CASE ~(target + 1 < 4 /\ (target = 0 \/ status = mediaWork.read))
  <2>1. PICK reply : reply = [ok |-> TRUE, reached |-> p, turned |-> status, playing |-> players[p].playing]
    OBVIOUS
  <2>2. MediaReply(reply)
    BY <1>4, <1>14, <1>16, <1>20, <2>1 DEF Poll, Polls
  <2>3. ASSUME Calm, lag < 4
        PROVE  status = players[p].playing
    <3>1. target > 0
      BY <1>20
    <3>2. CASE target = 3 /\ lag > 0
      BY <1>18, <2>3, <3>1, <3>2
    <3>3. CASE status # mediaWork.read /\ lag > 0
      BY <1>6, <1>17, <1>18, <2>3, <3>1, <3>3
    <3>4. CASE lag = 0
      BY <1>18, <2>3, <3>4
    <3> QED
      BY <1>20, <3>1, <3>2, <3>3, <3>4
  <2>4. ReplyTrue(reply)
    <3>1. /\ reply.ok /\ DOMAIN reply = {"ok", "reached", "turned", "playing"} /\ reply.reached = p
          /\ reply.turned = status /\ reply.playing = players[p].playing
      BY <2>1
    <3> QED
      BY <1>4, <1>15, <2>3, <3>1 DEF ReplyTrue
  <2> QED
    BY <1>1, <1>2, <1>12, <2>2, <2>4, RepliesAs DEF MediaInv
<1> QED
  BY <1>19, <1>20

\* A seek on its way to its next call.
LEMMA SeekGoesOn ==
  ASSUME MediaInv, mediaWork # NoRequest, mediaWork.at \in MidStages, allowed' = allowed,
         mediaNow' = mediaNow, playerEvents' = playerEvents,
         NEW at \in SeekStages, NEW target \in Int, NEW track \in Int, NEW work, MediaGoto(work),
         \/ work = [mediaWork EXCEPT !.at = at, !.target = target]
         \/ work = [mediaWork EXCEPT !.at = at, !.track = track]
         \/ work = [mediaWork EXCEPT !.at = at],
         SeekOK'
  PROVE  /\ (mediaWork # NoRequest => MediaWorkOK)'
         /\ (\A i \in DOMAIN mediaReply : MediaTold(mediaReply[i]))'
<1>1. mediaWork \in MidWork
  BY WorkKnown
<1>2. at \in MidStages /\ at # "poll"
  BY DEF MidStages, SeekStages
<1>3. /\ work \in MidWork /\ work.at = at /\ work.r = mediaWork.r /\ work.player = mediaWork.player
      /\ work.events = mediaWork.events /\ work.since = mediaWork.since
  BY <1>1, <1>2 DEF MidWork
<1> QED
  BY <1>2, <1>3, GoesOn

LEMMA AimsKeep ==
  ASSUME MediaInv, Aim
  PROVE  MediaInv'
<1>1. /\ MediaTyped' /\ (\A p \in Names \ interrupted : Steady(p))' /\ allowed' = allowed
      /\ mediaNow' = mediaNow /\ playerEvents' = playerEvents /\ players' = players
  BY WorldSame DEF Aim
<1>2. mediaWork.at \in {"media_seek", "media_seek_relative"} /\ mediaWork # NoRequest
  BY DEF Aim, NoRequest
<1>3. mediaWork.at \in MediaActions /\ mediaWork.at \in MidStages
  BY <1>2 DEF MediaActions, MidStages
<1>4. PICK p \in Names : p = Target /\ p = mediaWork.player
  BY <1>2, WorkKnown DEF Target
<1>5. mediaWork \in MidWork /\ SeekOK /\ mediaWork.r.action = mediaWork.at /\ ValidMedia(mediaWork.r)
      /\ mediaWork.r \in MediaRequests
  BY <1>2, <1>3, WorkKnown DEF MediaWorkOK
<1>6. PICK arg \in Int : arg = mediaWork.r.arg
  BY <1>5 DEF SeekOK
<1>7. mediaWork.at = "media_seek" => arg \in Nat
  BY <1>5, <1>6, MediaAssumption DEF ValidMedia
<1>8. Position(p) \in Nat
  BY DEF Position, MediaInv, MediaTyped, PlayerStates
<1>9. PICK aim \in Int : aim = IF mediaWork.r.action = "media_seek" THEN AsI64(mediaWork.r.arg)
                               ELSE Position(p) + mediaWork.r.arg
  BY <1>6, <1>8, MediaAssumption DEF AsI64
<1>10. PICK target \in Int : target = IF mediaWork.r.action = "media_seek_relative" /\ aim < 0 THEN 0 ELSE aim
  OBVIOUS
<1>11. arg <= MaxI64 => target >= 0
  BY <1>2, <1>5, <1>6, <1>7, <1>9, <1>10, MediaAssumption DEF AsI64
<1>12. \/ MediaReply(MediaRefused)
       \/ MediaGoto([mediaWork EXCEPT !.at = "track", !.target = target])
  BY <1>4, <1>9, <1>10 DEF Aim, SeekPast
<1>13. CASE MediaReply(MediaRefused)
  BY <1>1, <1>2, <1>13, Refusals DEF MediaInv
<1>14. CASE MediaGoto([mediaWork EXCEPT !.at = "track", !.target = target])
  <2>2. PICK work : work = [mediaWork EXCEPT !.at = "track", !.target = target]
    OBVIOUS
  <2>4. /\ work.at = "track" /\ work.r = mediaWork.r /\ work.target = target
    BY <1>5, <2>2 DEF MidWork
  <2>5. mediaWork' = work
    BY <1>14, <2>2 DEF MediaGoto
  <2>6. SeekOK'
    BY <1>6, <1>11, <2>4, <2>5 DEF SeekOK
  <2>7. "track" \in SeekStages
    BY DEF SeekStages
  <2> QED
    BY <1>1, <1>2, <1>3, <1>14, <2>2, <2>6, <2>7, SeekGoesOn DEF MediaInv
<1> QED
  BY <1>12, <1>13, <1>14

LEMMA TracksKeep ==
  ASSUME MediaInv, SeekTrack
  PROVE  MediaInv'
<1>1. /\ MediaTyped' /\ (\A p \in Names \ interrupted : Steady(p))' /\ allowed' = allowed
      /\ mediaNow' = mediaNow /\ playerEvents' = playerEvents /\ players' = players
  BY WorldSame DEF SeekTrack
<1>2. mediaWork.at = "track" /\ mediaWork # NoRequest
  BY DEF SeekTrack, MediaAt, NoRequest
<1>3. mediaWork.at \in SeekStages /\ mediaWork.at \in MidStages
  BY <1>2 DEF SeekStages, MidStages
<1>4. PICK p \in Names : p = Target /\ p = mediaWork.player
  BY <1>2, WorkKnown DEF Target
<1>5. mediaWork \in MidWork /\ SeekOK
  BY <1>2, <1>3, WorkKnown DEF MediaWorkOK
<1>6. players[p].track \in Nat \ {0}
  BY DEF MediaInv, MediaTyped, PlayerStates
<1>7. \/ MediaReply(MediaRefused)
      \/ /\ TrackOf(p) # Unknown
         /\ MediaGoto([mediaWork EXCEPT !.at = "set", !.track = TrackOf(p)])
      \/ ~(TrackOf(p) # Unknown) /\ MediaGoto([mediaWork EXCEPT !.at = "where"])
  BY <1>4 DEF SeekTrack, SeekPast
<1>8. PICK target \in Int, track \in Int : target = mediaWork.target /\ track = mediaWork.track
  BY <1>5 DEF MidWork
<1>9. CASE MediaReply(MediaRefused)
  BY <1>1, <1>2, <1>9, Refusals DEF MediaInv
<1>10. CASE /\ TrackOf(p) # Unknown
            /\ MediaGoto([mediaWork EXCEPT !.at = "set", !.track = TrackOf(p)])
  <2>1. Kind(p).tracks /\ TrackOf(p) = players[p].track /\ TrackOf(p) \in Int
    BY <1>6, <1>10 DEF TrackOf
  <2>2. PICK work : work = [mediaWork EXCEPT !.at = "set", !.track = TrackOf(p)]
    OBVIOUS
  <2>4. /\ work.at = "set" /\ work.r = mediaWork.r /\ work.target = target /\ work.player = p
        /\ work.track = TrackOf(p)
    BY <1>4, <1>5, <1>8, <2>2 DEF MidWork
  <2>5. mediaWork' = work
    BY <1>10, <2>2 DEF MediaGoto
  <2>6. SeekOK'
    BY <1>1, <1>3, <1>5, <1>8, <2>1, <2>4, <2>5 DEF SeekOK
  <2>7. "set" \in SeekStages
    BY DEF SeekStages
  <2> QED
    BY <1>1, <1>2, <1>3, <1>10, <2>1, <2>2, <2>6, <2>7, SeekGoesOn DEF MediaInv
<1>11. CASE ~(TrackOf(p) # Unknown) /\ MediaGoto([mediaWork EXCEPT !.at = "where"])
  <2>1. ~Kind(p).tracks
    BY <1>6, <1>11 DEF TrackOf, Unknown
  <2>2. PICK work : work = [mediaWork EXCEPT !.at = "where"]
    OBVIOUS
  <2>4. /\ work.at = "where" /\ work.r = mediaWork.r /\ work.target = target /\ work.player = p
    BY <1>4, <1>5, <1>8, <2>2 DEF MidWork
  <2>5. mediaWork' = work
    BY <1>11, <2>2 DEF MediaGoto
  <2>6. SeekOK'
    BY <1>1, <1>3, <1>5, <1>8, <2>1, <2>4, <2>5 DEF SeekOK
  <2>7. "where" \in SeekStages
    BY DEF SeekStages
  <2> QED
    BY <1>1, <1>2, <1>3, <1>8, <1>11, <2>2, <2>6, <2>7, SeekGoesOn DEF MediaInv
<1> QED
  BY <1>7, <1>9, <1>10, <1>11

LEMMA WheresKeep ==
  ASSUME MediaInv, SeekWhere
  PROVE  MediaInv'
<1>1. /\ MediaTyped' /\ (\A p \in Names \ interrupted : Steady(p))' /\ allowed' = allowed
      /\ mediaNow' = mediaNow /\ playerEvents' = playerEvents /\ players' = players /\ mediaNow \in Nat
  BY WorldSame DEF SeekWhere
<1>2. mediaWork.at = "where" /\ mediaWork # NoRequest
  BY DEF SeekWhere, MediaAt, NoRequest
<1>3. mediaWork.at \in SeekStages /\ mediaWork.at \in MidStages
  BY <1>2 DEF SeekStages, MidStages
<1>4. PICK p \in Names : p = Target /\ p = mediaWork.player
  BY <1>2, WorkKnown DEF Target
<1>5. mediaWork \in MidWork /\ SeekOK
  BY <1>2, <1>3, WorkKnown DEF MediaWorkOK
<1>6. players[p].pos \in Nat /\ Position(p) \in Nat
  BY DEF MediaInv, MediaTyped, PlayerStates, Position
<1>7. PICK target \in Int : target = mediaWork.target
  BY <1>5 DEF MidWork
<1>8. PICK track \in Int : track = mediaWork.target - Position(p)
  BY <1>6, <1>7
<1>9. MediaReply(MediaRefused) \/ MediaGoto([mediaWork EXCEPT !.at = "offset", !.track = track])
  BY <1>4, <1>8 DEF SeekWhere, SeekPast
<1>10. CASE MediaReply(MediaRefused)
  BY <1>1, <1>2, <1>10, Refusals DEF MediaInv
<1>11. CASE MediaGoto([mediaWork EXCEPT !.at = "offset", !.track = track])
  <2>1. PICK work : work = [mediaWork EXCEPT !.at = "offset", !.track = track]
    OBVIOUS
  <2>3. /\ work.at = "offset" /\ work.r = mediaWork.r /\ work.target = target /\ work.player = p
        /\ work.track = track /\ work.since = mediaWork.since
    BY <1>4, <1>5, <1>7, <2>1 DEF MidWork
  <2>4. mediaWork' = work
    BY <1>11, <2>1 DEF MediaGoto
  <2>5. Kind(p).reports => players[p].pos - (target - track) = 0
    BY <1>6, <1>7, <1>8 DEF Position
  <2>6. 0 \in 0..2 * (mediaNow - mediaWork.since)
    BY <1>1, <1>2, WorkKnown
  <2>7. SeekOK'
    BY <1>1, <1>2, <1>3, <1>4, <1>5, <1>7, <2>3, <2>4, <2>5, <2>6 DEF SeekOK
  <2>8. "offset" \in SeekStages
    BY DEF SeekStages
  <2> QED
    BY <1>1, <1>2, <1>3, <1>7, <1>11, <2>1, <2>7, <2>8, SeekGoesOn DEF MediaInv
<1> QED
  BY <1>9, <1>10, <1>11

\* A player that is moved to where a seek is for.
LEMMA SoughtKeeps ==
  ASSUME MediaInv, mediaWork # NoRequest, NEW pos \in Nat, SoughtTo(pos), mediaNow' = mediaNow,
         posCache' = posCache, metaCache' = metaCache, playerEvents' = playerEvents
  PROVE  MediaTyped' /\ (\A q \in Names \ interrupted : Steady(q))'
<1>1. PICK p \in Names : p = Target
  BY WorkKnown DEF Target
<1>2. /\ players[p] \in PlayerStates /\ players \in [Names -> PlayerStates]
  BY DEF MediaInv, MediaTyped
<1>3. PICK s \in PlayerStates : s = [players[p] EXCEPT !.pos = pos]
  BY <1>2 DEF PlayerStates
<1>4. /\ players' = [players EXCEPT ![p] = s] /\ Signalled(p, [pos |-> pos]) /\ Overheard(p)
  BY <1>1, <1>2, <1>3 DEF SoughtTo
<1>5. [pos |-> pos] \in MediaSignals
  BY DEF MediaSignals
<1>6. /\ signals' \in [Names -> Seq(MediaSignals)] /\ \A q \in Names \ {p} : signals'[q] = signals[q]
      /\ p \in watchers => signals'[p] = Append(signals[p], [pos |-> pos])
  BY <1>4, <1>5, SignalsTyped
<1>7. interrupted \subseteq interrupted'
  BY <1>4 DEF Overheard
<1>8. ASSUME p \notin interrupted'
      PROVE  Steady(p)'
  <2>1. p \in watchers /\ p \notin interrupted
    BY <1>4, <1>8 DEF Overheard, Unnoticed
  <2> QED
    BY <1>3, <1>4, <1>6, <2>1, MovedSteady DEF MediaInv
<1> QED
  BY <1>4, <1>6, <1>7, <1>8, TouchesKeep

LEMMA SetPositionKeeps ==
  ASSUME MediaInv, SetPosition
  PROVE  MediaInv'
<1>1. /\ mediaNow' = mediaNow /\ allowed' = allowed /\ posCache' = posCache /\ metaCache' = metaCache
      /\ playerEvents' = playerEvents /\ watchers' = watchers /\ defaultPlayer' = defaultPlayer
  BY DEF SetPosition
<1>2. mediaWork.at = "set" /\ mediaWork # NoRequest
  BY DEF SetPosition, MediaAt, NoRequest
<1>3. mediaWork.at \in SeekStages /\ mediaWork.at \in MidStages
  BY <1>2 DEF SeekStages, MidStages
<1>4. PICK p \in Names : p = Target /\ p = mediaWork.player
  BY <1>2, WorkKnown DEF Target
<1>5. mediaWork \in MidWork /\ SeekOK
  BY <1>2, <1>3, WorkKnown DEF MediaWorkOK
<1>6. PICK target \in Int, track \in Int : target = mediaWork.target /\ track = mediaWork.track
  BY <1>5 DEF MidWork
<1>7. players[p].track \in Nat \ {0}
  BY DEF MediaInv, MediaTyped, PlayerStates
<1>8. \/ MediaReply(MediaRefused) /\ UNCHANGED <<players, signals, interrupted>>
      \/ /\ ~Kind(p).setpos
         /\ MediaGoto([mediaWork EXCEPT !.at = "where"]) /\ UNCHANGED <<players, signals, interrupted>>
      \/ LET heard == track = players[p].track /\ target >= 0 IN
         /\ IF heard THEN SoughtTo(target) ELSE UNCHANGED <<players, signals, interrupted>>
         /\ MediaReply([ok |-> TRUE, reached |-> p, position |-> target,
                        landed |-> IF heard THEN target ELSE players[p].pos])
  BY <1>4, <1>6 DEF SetPosition, SeekPast
<1>9. ASSUME UNCHANGED <<players, signals, interrupted>>
      PROVE  MediaTyped' /\ (\A q \in Names \ interrupted : Steady(q))'
  BY <1>1, <1>9, WorldSame DEF mediaWorld
<1>10. CASE MediaReply(MediaRefused) /\ UNCHANGED <<players, signals, interrupted>>
  BY <1>1, <1>2, <1>9, <1>10, Refusals DEF MediaInv
<1>11. CASE /\ ~Kind(p).setpos
            /\ MediaGoto([mediaWork EXCEPT !.at = "where"]) /\ UNCHANGED <<players, signals, interrupted>>
  <2>1. PICK work : work = [mediaWork EXCEPT !.at = "where"]
    OBVIOUS
  <2>2. /\ work.at = "where" /\ work.r = mediaWork.r /\ work.target = target /\ work.player = p
    BY <1>4, <1>5, <1>6, <2>1 DEF MidWork
  <2>3. mediaWork' = work
    BY <1>11, <2>1 DEF MediaGoto
  <2>4. SeekOK'
    BY <1>1, <1>3, <1>5, <1>6, <1>11, <2>2, <2>3 DEF SeekOK
  <2>5. "where" \in SeekStages
    BY DEF SeekStages
  <2> QED
    BY <1>1, <1>2, <1>3, <1>6, <1>9, <1>11, <2>1, <2>4, <2>5, SeekGoesOn DEF MediaInv
<1>12. CASE LET heard == track = players[p].track /\ target >= 0 IN
            /\ IF heard THEN SoughtTo(target) ELSE UNCHANGED <<players, signals, interrupted>>
            /\ MediaReply([ok |-> TRUE, reached |-> p, position |-> target,
                           landed |-> IF heard THEN target ELSE players[p].pos])
  <2>1. PICK landed : landed = IF track = players[p].track /\ target >= 0 THEN target ELSE players[p].pos
    OBVIOUS
  <2>2. PICK reply : reply = [ok |-> TRUE, reached |-> p, position |-> target, landed |-> landed]
    OBVIOUS
  <2>3. MediaReply(reply)
    BY <1>12, <2>1, <2>2
  <2>4. /\ reply.reached = p /\ reply.position = target /\ reply.landed = landed
        /\ DOMAIN reply = {"ok", "reached", "position", "landed"}
    BY <2>2
  <2>5. ReplyTrue(reply)
    <3>1. Calm /\ mediaWork.r.arg <= MaxI64 => landed = target
      BY <1>2, <1>3, <1>4, <1>5, <1>6, <2>1 DEF SeekOK
    <3>2. 0 \in 0..2 * (mediaNow - mediaWork.since)
      BY <1>2, WorkKnown DEF MediaInv, MediaTyped
    <3>3. Calm /\ mediaWork.r.arg <= MaxI64 =>
            reply.landed - reply.position \in 0..2 * (mediaNow - mediaWork.since)
      BY <2>4, <3>1, <3>2
    <3> QED
      BY <1>4, <2>4, <3>3 DEF ReplyTrue
  <2>6. MediaTyped' /\ (\A q \in Names \ interrupted : Steady(q))'
    <3>1. CASE track = players[p].track /\ target >= 0
      <4>1. target \in Nat /\ SoughtTo(target)
        BY <1>12, <3>1
      <4> QED
        BY <1>1, <1>2, <4>1, SoughtKeeps
    <3>2. CASE ~(track = players[p].track /\ target >= 0)
      BY <1>9, <1>12, <3>2
    <3> QED
      BY <3>1, <3>2
  <2> QED
    BY <1>1, <1>2, <2>3, <2>5, <2>6, RepliesAs DEF MediaInv
<1> QED
  BY <1>8, <1>10, <1>11, <1>12

LEMMA OffsetsKeep ==
  ASSUME MediaInv, SeekOffset
  PROVE  MediaInv'
<1>1. /\ mediaNow' = mediaNow /\ allowed' = allowed /\ posCache' = posCache /\ metaCache' = metaCache
      /\ playerEvents' = playerEvents /\ watchers' = watchers /\ defaultPlayer' = defaultPlayer
  BY DEF SeekOffset
<1>2. mediaWork.at = "offset" /\ mediaWork # NoRequest
  BY DEF SeekOffset, MediaAt, NoRequest
<1>3. mediaWork.at \in SeekStages /\ mediaWork.at \in MidStages
  BY <1>2 DEF SeekStages, MidStages
<1>4. PICK p \in Names : p = Target /\ p = mediaWork.player
  BY <1>2, WorkKnown DEF Target
<1>5. mediaWork \in MidWork /\ SeekOK
  BY <1>2, <1>3, WorkKnown DEF MediaWorkOK
<1>6. PICK target \in Int, track \in Int : target = mediaWork.target /\ track = mediaWork.track
  BY <1>5 DEF MidWork
<1>7. PICK pos \in Nat : pos = players[p].pos
  BY DEF MediaInv, MediaTyped, PlayerStates
<1>8. PICK landed \in Nat : landed = IF pos + track < 0 THEN 0 ELSE pos + track
  BY <1>6, <1>7
<1>9. PICK reply : reply = [ok |-> TRUE, reached |-> p, position |-> target, landed |-> landed]
  OBVIOUS
<1>10. \/ MediaReply(MediaRefused) /\ UNCHANGED <<players, signals, interrupted>>
       \/ SoughtTo(landed) /\ MediaReply(reply)
  BY <1>4, <1>6, <1>7, <1>8, <1>9 DEF SeekOffset, SeekPast
<1>11. CASE MediaReply(MediaRefused) /\ UNCHANGED <<players, signals, interrupted>>
  <2>1. MediaTyped' /\ (\A q \in Names \ interrupted : Steady(q))'
    BY <1>1, <1>11, WorldSame DEF mediaWorld
  <2> QED
    BY <1>1, <1>2, <1>11, <2>1, Refusals DEF MediaInv
<1>12. CASE SoughtTo(landed) /\ MediaReply(reply)
  <2>1. MediaTyped' /\ (\A q \in Names \ interrupted : Steady(q))'
    BY <1>1, <1>2, <1>12, SoughtKeeps
  <2>2. /\ reply.reached = p /\ reply.position = target /\ reply.landed = landed
        /\ DOMAIN reply = {"ok", "reached", "position", "landed"}
    BY <1>9
  <2>3. ASSUME Calm, mediaWork.r.arg <= MaxI64, Seekable(p)
        PROVE  landed - target \in 0..2 * (mediaNow - mediaWork.since)
    <3>1. target >= 0 /\ Kind(p).reports
      BY <1>2, <1>3, <1>4, <1>5, <1>6, <2>3 DEF SeekOK, Seekable
    <3>2. pos - (target - track) \in 0..2 * (mediaNow - mediaWork.since)
      BY <1>2, <1>4, <1>3, <1>5, <1>6, <1>7, <2>3, <3>1 DEF SeekOK
    <3>3. mediaNow - mediaWork.since \in Nat
      BY <1>2, WorkKnown DEF MediaInv, MediaTyped
    <3> QED
      BY <1>8, <3>1, <3>2, <3>3
  <2>4. ReplyTrue(reply)
    BY <1>4, <2>2, <2>3 DEF ReplyTrue
  <2> QED
    BY <1>1, <1>2, <1>12, <2>1, <2>4, RepliesAs DEF MediaInv
<1> QED
  BY <1>10, <1>11, <1>12

\* What is read for a status is the player's, and so is what is kept of it.
LEMMA StatusKeeps ==
  ASSUME MediaInv, NEW given \in SUBSET Fields, Status(given)
  PROVE  MediaInv'
<1>1. /\ mediaNow' = mediaNow /\ allowed' = allowed /\ posCache' = posCache /\ players' = players
      /\ playerEvents' = playerEvents /\ signals' = signals /\ interrupted' = interrupted
      /\ watchers' = watchers /\ defaultPlayer' = defaultPlayer
  BY DEF Status, mediaWorld
<1>2. mediaWork.at = "media_status" /\ mediaWork # NoRequest
  BY DEF Status, MediaAt, NoRequest
<1>3. mediaWork.at \in MediaActions /\ mediaWork.at \in MidStages
  BY <1>2 DEF MediaActions, MidStages
<1>4. PICK p \in Names : p = Target /\ p = mediaWork.player
  BY <1>2, WorkKnown DEF Target
<1>5. CASE ~Present
  <2>1. MediaReply(MediaRefused) /\ metaCache' = metaCache
    BY <1>5 DEF Status
  <2>2. MediaTyped' /\ (\A q \in Names \ interrupted : Steady(q))'
    BY <1>1, <2>1, WorldSame DEF mediaWorld
  <2> QED
    BY <1>1, <1>2, <2>1, <2>2, Refusals DEF MediaInv
<1>6. CASE Present
  <2>1. PICK s \in PlayerStates : s = players[p]
    BY DEF MediaInv, MediaTyped
  <2>2. PICK meta : meta = Merged(p, Told(p, given))
    OBVIOUS
  <2>3. PICK work : work = [at |-> "answer", r |-> mediaWork.r, player |-> p, playing |-> s.playing,
                            raw |-> Position(p), meta |-> meta, track |-> s.track,
                            given |-> given, rate |-> s.rate, volume |-> s.volume, loop |-> s.loop,
                            events |-> mediaWork.events, since |-> mediaWork.since]
    OBVIOUS
  <2>4. mediaWork' = work /\ metaCache' = [metaCache EXCEPT ![p] = meta] /\ mediaReply' = <<>>
    BY <1>4, <1>6, <2>1, <2>2, <2>3 DEF Status, NoReply
  <2>5. metaCache \in [Names -> [Fields -> Nat]]
    BY DEF MediaInv, MediaTyped
  <2>6. s.track \in Nat \ {0} /\ s.pos \in Nat /\ s.playing \in BOOLEAN /\ s.rate \in {1, 2}
        /\ s.volume \in Volumes /\ s.loop \in LoopStates
    BY <2>1 DEF PlayerStates
  <2>7. /\ meta \in [Fields -> Nat]
        /\ \A f \in Fields : meta[f] = IF f \in given THEN s.track ELSE metaCache[p][f]
    <3>1. \A f \in Fields : Told(p, given)[f] = IF f \in given THEN s.track ELSE Unknown
      BY <2>1 DEF Told
    <3>2. \A f \in Fields : meta[f] = IF f \in given THEN s.track ELSE metaCache[p][f]
      BY <2>2, <2>6, <3>1 DEF Merged, Unknown
    <3>3. \A f \in Fields : meta[f] \in Nat
      BY <2>5, <2>6, <3>2
    <3>4. meta = [f \in Fields |-> meta[f]]
      BY <2>2 DEF Merged
    <3> QED
      BY <3>2, <3>3, <3>4
  <2>8. metaCache' \in [Names -> [Fields -> Nat]] /\ metaCache'[p] = meta
        /\ \A q \in Names \ {p} : metaCache'[q] = metaCache[q]
    BY <2>4, <2>5, <2>7
  <2>9. MediaTyped'
    <3>1. \A q : Cached(q)' = Cached(q)
      BY <1>1, CacheSame
    <3> QED
      BY <1>1, <2>8, <3>1 DEF MediaInv, MediaTyped
  <2>10. ASSUME NEW q \in Names \ interrupted'
         PROVE  Steady(q)'
    <3>1. Steady(q) /\ Cached(q)' = Cached(q)
      BY <1>1, <2>10, CacheSame DEF MediaInv
    <3>2. CASE q = p
      <4>1. \A f \in Fields : metaCache'[p][f] \in {Unknown, 1}
        BY <2>1, <2>7, <2>8, <3>1, <3>2 DEF Steady
      <4> QED
        BY <1>1, <3>1, <3>2, <4>1 DEF Steady
    <3>3. CASE q # p
      BY <1>1, <2>8, <3>1, <3>3, SteadySame DEF MediaInv
    <3> QED
      BY <3>2, <3>3
  <2>11. /\ work.at = "answer" /\ work.r = mediaWork.r /\ work.player = p /\ work.raw = Position(p)
         /\ work.meta = meta /\ work.track = s.track /\ work.given = given /\ work.rate = s.rate
         /\ work.events = mediaWork.events /\ work.since = mediaWork.since
    BY <2>3
  <2>12. Position(p) \in Nat /\ Position(p) <= s.pos
    BY <2>1, <2>6 DEF Position
  <2>13. work \in AnswerWork
    BY <1>2, <2>3, <2>6, <2>7, <2>12, WorkKnown DEF AnswerWork
  <2>14. AnswerOK'
    <3>1. ASSUME p \notin interrupted
          PROVE  s.track = 1 /\ \A f \in Fields : meta[f] \in {Unknown, 1}
      <4>1. Steady(p)
        BY <3>1 DEF MediaInv
      <4> QED
        BY <2>1, <2>7, <4>1 DEF Steady
    <3>2. \A f \in given : meta[f] = s.track
      BY <2>7
    <3> QED
      BY <1>1, <2>1, <2>4, <2>11, <2>12, <3>1, <3>2 DEF AnswerOK
  <2>15. MediaWorkOK'
    <3>1. "answer" \notin MediaActions \cup SeekStages \cup {"media_seek", "media_seek_relative", "poll"}
      BY DEF MediaActions, SeekStages
    <3>3. ValidMedia(work.r)' <=> ValidMedia(work.r)
      BY DEF ValidMedia, Level
    <3>4. MediaWorkOK
      BY <1>2, WorkKnown
    <3> QED
      BY <1>1, <1>4, <2>4, <2>11, <2>13, <2>14, <3>1, <3>3, <3>4 DEF MediaWorkOK, IsAllowed
  <2> QED
    BY <1>1, <2>4, <2>9, <2>10, <2>15, RepliesTrue DEF MediaInv
<1> QED
  BY <1>5, <1>6

\* Where a status says a player is, it has been.
LEMMA AnswersKeep ==
  ASSUME MediaInv, StatusAnswer
  PROVE  MediaInv'
<1>1. /\ mediaNow' = mediaNow /\ allowed' = allowed /\ metaCache' = metaCache /\ players' = players
      /\ playerEvents' = playerEvents /\ signals' = signals /\ mediaNow \in Nat
  BY DEF StatusAnswer, MediaInv, MediaTyped
<1>2. mediaWork.at = "answer" /\ mediaWork # NoRequest
  BY DEF StatusAnswer, MediaAt, NoRequest
<1>3. PICK p \in Names : p = Target /\ p = mediaWork.player
  BY <1>2, WorkKnown DEF Target
<1>4. mediaWork \in AnswerWork /\ AnswerOK
  <2>1. "answer" \notin MidStages
    BY DEF MidStages, MediaActions, SeekStages
  <2> QED
    BY <1>2, <2>1, WorkKnown DEF MediaWorkOK
<1>5. PICK raw \in Nat, rate \in {1, 2}, playing \in BOOLEAN :
         raw = mediaWork.raw /\ rate = mediaWork.rate /\ playing = mediaWork.playing
  BY <1>4 DEF AnswerWork
<1>6. PICK c : c = Cached(p)
  OBVIOUS
<1>7. c.pos \in Nat /\ c.rate \in 0..2 /\ c.at \in 0..mediaNow
  BY <1>6, CacheKnown
<1>8. PICK d \in Nat : d = mediaNow - c.at
  BY <1>1, <1>7
<1>9. PICK far \in Nat : far = d * c.rate
  BY <1>7
<1>10. PICK position : position = Extrapolated(p, raw, playing)
  OBVIOUS
<1>11. position \in {raw, c.pos + far} /\ position \in Nat
  BY <1>5, <1>6, <1>7, <1>8, <1>9, <1>10 DEF Extrapolated
<1>12. PICK shown \in Nat : shown = IF playing /\ position > 0 THEN position ELSE raw
  BY <1>5, <1>11
<1>13. PICK e : e = [pos |-> shown, rate |-> rate, at |-> mediaNow]
  OBVIOUS
<1>14. e \in MediaCaches /\ e.pos = shown /\ e.rate = rate /\ e.at = mediaNow
  BY <1>1, <1>5, <1>13 DEF MediaCaches
<1>15. PICK reply : reply = [ok |-> TRUE, reached |-> p, shown |-> position, meta |-> mediaWork.meta,
                             volume |-> mediaWork.volume, loop |-> mediaWork.loop,
                             settled |-> p \notin interrupted',
                             ahead |-> p \notin interrupted' /\ position > players[p].pos]
  OBVIOUS
<1>16. /\ Stored(p, e) /\ MediaReply(reply)
       /\ interrupted' = IF signals[p] # <<>> THEN interrupted \cup {p} ELSE interrupted
  BY <1>3, <1>5, <1>10, <1>12, <1>13, <1>15 DEF StatusAnswer
<1>17. Cached(p)' = e /\ \A q : q # p => Cached(q)' = Cached(q)
  BY <1>1, <1>16, StoredCaches
<1>18. MediaTyped'
  <2>1. ASSUME NEW q \in Names
        PROVE  Cached(q)' \in MediaCaches /\ Cached(q)'.at <= mediaNow
    <3>1. CASE q = p
      BY <1>1, <1>14, <1>17, <3>1
    <3>2. CASE q # p
      BY <1>17, <3>2 DEF MediaInv, MediaTyped
    <3> QED
      BY <3>1, <3>2
  <2> QED
    BY <1>1, <2>1 DEF MediaInv, MediaTyped
<1>19. players[p].pos \in Nat /\ players[p].rate \in {1, 2}
  BY DEF MediaInv, MediaTyped, PlayerStates
\* A player that has gone on, with all its signals noted.
<1>20. ASSUME p \notin interrupted'
       PROVE  /\ Steady(p) /\ signals[p] = <<>> /\ p \notin interrupted
              /\ position <= players[p].pos /\ shown <= players[p].pos /\ rate = players[p].rate
  <2>1. signals[p] = <<>> /\ p \notin interrupted /\ Steady(p)
    BY <1>16, <1>20 DEF MediaInv
  <2>2. NoPos(<<>>) /\ NoRate(<<>>)
    BY DEF NoPos, NoRate
  <2>3. c.pos + (mediaNow - c.at) * c.rate <= players[p].pos
    BY <1>6, <2>1, <2>2 DEF Steady
  <2>4. c.pos + far <= players[p].pos
    BY <1>8, <1>9, <2>3
  <2>5. raw <= players[p].pos /\ rate = players[p].rate
    BY <1>3, <1>4, <1>5, <2>1 DEF AnswerOK
  <2> QED
    BY <1>11, <1>12, <1>19, <2>1, <2>4, <2>5
<1>21. ASSUME NEW q \in Names \ interrupted'
       PROVE  Steady(q)'
  <2>1. CASE q = p
    <3>1. e.pos + (mediaNow - e.at) * e.rate <= players[p].pos
      <4>1. (mediaNow - e.at) * e.rate = 0
        BY <1>1, <1>14
      <4> QED
        BY <1>14, <1>19, <1>20, <1>21, <2>1, <4>1
    <3>2. e.rate <= players[p].rate
      BY <1>14, <1>19, <1>20, <1>21, <2>1
    <3>3. e.pos <= players[p].pos
      BY <1>14, <1>20, <1>21, <2>1
    <3> QED
      BY <1>1, <1>17, <1>20, <1>21, <2>1, <3>1, <3>2, <3>3 DEF Steady
  <2>2. CASE q # p
    <3>1. q \notin interrupted
      BY <1>16, <1>21
    <3> QED
      BY <1>1, <1>17, <2>2, <3>1, SteadySame DEF MediaInv
  <2> QED
    BY <2>1, <2>2
<1>22. ReplyTrue(reply)
  <2>1. /\ reply.reached = p /\ reply.meta = mediaWork.meta
        /\ DOMAIN reply = {"ok", "reached", "shown", "meta", "volume", "loop", "settled", "ahead"}
    BY <1>15
  <2>2. reply.settled <=> p \notin interrupted'
    BY <1>15
  <2>3. reply.ahead <=> p \notin interrupted' /\ position > players[p].pos
    BY <1>15
  <2>4. ~reply.ahead
    BY <1>11, <1>19, <1>20, <2>3
  <2>5. \A f \in Fields : /\ f \in mediaWork.given => mediaWork.meta[f] = mediaWork.track
                          /\ reply.settled => mediaWork.meta[f] \in {Unknown, mediaWork.track}
    BY <1>3, <1>4, <1>20, <2>2 DEF AnswerOK
  <2> QED
    BY <1>3, <2>1, <2>4, <2>5 DEF ReplyTrue
<1> QED
  BY <1>1, <1>2, <1>16, <1>18, <1>21, <1>22, RepliesAs DEF MediaInv

LEMMA MediaStarts ==
  ASSUME MediaInit
  PROVE  MediaInv
<1>1. /\ mediaNow = 0 /\ playerEvents = 0 /\ mediaWork = NoRequest /\ mediaReply = <<>>
      /\ players = [p \in Names |-> [up |-> TRUE, playing |-> TRUE, pos |-> 0, track |-> 1,
                                     rate |-> 1, stale |-> 0, volume |-> 50, loop |-> "None"]]
      /\ signals = [p \in Names |-> <<>>] /\ posCache = <<>>
      /\ metaCache = [p \in Names |-> [f \in Fields |-> Unknown]]
  BY DEF MediaInit
<1>2. PICK s : s = [up |-> TRUE, playing |-> TRUE, pos |-> 0, track |-> 1,
                    rate |-> 1, stale |-> 0, volume |-> 50, loop |-> "None"]
  OBVIOUS
<1>3. s \in PlayerStates /\ s.up /\ s.playing /\ s.track = 1 /\ s.pos = 0 /\ s.rate = 1
  BY <1>2 DEF PlayerStates, Volumes, LoopStates
<1>4. players = [p \in Names |-> s]
  BY <1>1, <1>2
<1>5. \A p : Cached(p) = [pos |-> 0, rate |-> 1, at |-> 0]
  BY <1>1 DEF Cached
<1>6. PICK c : c = [pos |-> 0, rate |-> 1, at |-> 0]
  OBVIOUS
<1>7. c \in MediaCaches /\ c.pos = 0 /\ c.rate = 1 /\ c.at = 0
  BY <1>6 DEF MediaCaches
<1>8. signals \in [Names -> Seq(MediaSignals)] /\ \A p \in Names : signals[p] = <<>>
  BY <1>1
<1>9. metaCache \in [Names -> [Fields -> Nat]]
      /\ \A p \in Names : \A f \in Fields : metaCache[p][f] = Unknown
  BY <1>1 DEF Unknown
<1>10. MediaTyped
  <2>1. players \in [Names -> PlayerStates]
    BY <1>3, <1>4
  <2>2. \A p \in Names : Cached(p) \in MediaCaches /\ Cached(p).at <= mediaNow
    BY <1>1, <1>5, <1>6, <1>7
  <2> QED
    BY <1>1, <1>8, <1>9, <2>1, <2>2 DEF MediaTyped
<1>11. ASSUME NEW p \in Names
       PROVE  Steady(p)
  <2>1. players[p] = s /\ signals[p] = <<>> /\ Cached(p) = c
    BY <1>4, <1>5, <1>6, <1>8
  <2>2. c.pos + (mediaNow - c.at) * c.rate <= s.pos
    BY <1>1, <1>3, <1>7
  <2>3. PosTold(<<>>, s.pos) /\ RateTold(<<>>, s.rate)
    BY DEF PosTold, RateTold
  <2> QED
    BY <1>3, <1>7, <1>9, <2>1, <2>2, <2>3 DEF Steady
<1> QED
  BY <1>1, <1>10, <1>11 DEF MediaInv

LEMMA MediaStutters ==
  ASSUME MediaInv, UNCHANGED mediaVars
  PROVE  MediaInv'
<1>1. UNCHANGED <<mediaWorld, posCache, metaCache>> /\ mediaWork' = mediaWork /\ mediaReply' = mediaReply
  BY DEF mediaVars, mediaWorld
<1>2. MediaTyped' /\ (\A p \in Names \ interrupted : Steady(p))'
  BY <1>1, WorldSame
<1>3. (mediaWork # NoRequest => MediaWorkOK)'
  <2>1. ValidMedia(mediaWork.r)' <=> ValidMedia(mediaWork.r)
    BY <1>1 DEF ValidMedia, Level
  <2> QED
    BY <1>1, <2>1 DEF MediaInv, MediaWorkOK, mediaWorld, IsAllowed, SeekOK, PollOK, AnswerOK, Calm
<1> QED
  BY <1>1, <1>2, <1>3, RepliesTrue DEF MediaInv, mediaWorld

\* What a media request is told is true: it reaches an allowed player, a
\* seek lands where the reply says, a turned player is as the reply says, and
\* a position that is shown is never ahead of the player.
THEOREM MediaIsTrue == MediaSpec => []MediaTellsTheTruth
<1>1. MediaInit => MediaInv
  BY MediaStarts
<1>2. MediaInv /\ [MediaNext]_mediaVars => MediaInv'
  <2> SUFFICES ASSUME MediaInv, [MediaNext]_mediaVars
               PROVE  MediaInv'
    OBVIOUS
  <2>1. CASE Tick
    BY <2>1, Passes
  <2>2. CASE Scan
    BY <2>2, ScanKeeps
  <2>3. ASSUME NEW p \in Names,
               \/ \E pos \in SeekTargets : UserSeek(p, pos)
               \/ UserRate(p) \/ UserPause(p) \/ NextTrack(p) \/ Vanish(p) \/ Note(p)
        PROVE  MediaInv'
    BY <2>3, SeeksKeep, RatesKeep, PausesKeep, NotesKeep
  <2>4. ASSUME NEW r \in MediaRequests, MediaTake(r)
        PROVE  MediaInv'
    BY <2>4, TakesKeep
  <2>5. CASE MediaControl \/ MediaSet \/ Turn \/ Poll
    BY <2>5, ControlKeeps, SetsKeep, TurnsKeep, PollsKeep
  <2>6. CASE Aim \/ SeekTrack \/ SetPosition \/ SeekWhere \/ SeekOffset
    BY <2>6, AimsKeep, TracksKeep, SetPositionKeeps, WheresKeep, OffsetsKeep
  <2>7. CASE Status(Fields) \/ Status({"title"})
    <3>1. Fields \in SUBSET Fields /\ {"title"} \in SUBSET Fields
      BY DEF Fields
    <3> QED
      BY <2>7, <3>1, StatusKeeps
  <2>8. CASE StatusAnswer
    BY <2>8, AnswersKeep
  <2>9. CASE UNCHANGED mediaVars
    BY <2>9, MediaStutters
  <2> QED
    BY <2>1, <2>2, <2>3, <2>4, <2>5, <2>6, <2>7, <2>8, <2>9 DEF MediaNext
<1>3. MediaInv => MediaTellsTheTruth
  BY DEF MediaInv, MediaTold, MediaTellsTheTruth
<1> QED
  BY <1>1, <1>2, <1>3, PTL DEF MediaSpec
=============================================================================
