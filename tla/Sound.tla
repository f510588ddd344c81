------------------------------- MODULE Sound ---------------------------------
(***************************************************************************)
(* The sound plugin: a sequential loop that owns the speakers. A clip is a *)
(* player process and, for inline audio, a temporary file named after the  *)
(* millisecond. A new clip replaces the playing one; finished clips are    *)
(* only noticed by the next request.                                       *)
(***************************************************************************)
EXTENDS Integers, Sequences, SequencesExt, FiniteSets

CONSTANTS
  SoundRequests,     \* the requests callers send
  HostPlayers,       \* the players found on PATH
  PinnedPlayer,      \* SOUND_PLUGIN_PLAYER, or Unset
  Unset,
  MaxSourceBytes,    \* SOUND_PLUGIN_MAX_BYTES
  MaxPlays,          \* bound: requests
  MaxSoundFaults,    \* bound: players that fail to start, files that cannot be written
  MaxSoundCrashes,   \* bound: crashes
  MaxSoundMillis     \* bound: the clock

VARIABLES
  soundStep,    \* what the loop is doing
  clips,        \* State.clips
  nextClip,     \* State.next_id
  playing,      \* the player processes that run, by the clip they were started for
  tempFiles,    \* the temporary files: name, the clip that wrote it, whether all of it is there
  soundMillis,  \* the clock
  abandoned,    \* history: files whose clip was killed or died with the process
  orphans,      \* history: players that outlived the process
  sameName,     \* history: two files were given one name
  soundSpent    \* requests, faults and crashes so far

soundVars == <<soundStep, clips, nextClip, playing, tempFiles, soundMillis,
               abandoned, orphans, sameName, soundSpent>>

-----------------------------------------------------------------------------
(* A request: volume in tenths, format a number of letters.                *)

ValidFormat(f) == f.length \in 1..8 /\ f.alphanumeric

ValidPlay(r) ==
  /\ (r.file = Unset) # (r.data = Unset)
  /\ r.file # Unset => r.file.absolute
  /\ r.data # Unset => r.data.bytes > 0 /\ r.format # Unset /\ ValidFormat(r.format)
  /\ r.volume = Unset \/ r.volume \in 0..100
  /\ r.device # ""

SourceFits(r) == IF r.file # Unset THEN r.file.exists /\ r.file.bytes <= MaxSourceBytes
                 ELSE r.data.base64 /\ r.data.bytes <= MaxSourceBytes

\* What each player can do; the order is the order of the chain for wav.
Profiles == <<[bin |-> "pw-cat", volume |-> TRUE, device |-> TRUE, wav |-> TRUE],
              [bin |-> "paplay", volume |-> TRUE, device |-> TRUE, wav |-> TRUE],
              [bin |-> "aplay", volume |-> FALSE, device |-> TRUE, wav |-> TRUE],
              [bin |-> "ffplay", volume |-> TRUE, device |-> FALSE, wav |-> FALSE]>>

IsWav(r) == IF r.file # Unset THEN r.file.wav ELSE r.format.wav

\* The candidates in order; empty when nothing supports the combination.
PlayerChain(r) ==
  IF PinnedPlayer # Unset THEN <<PinnedPlayer>>
  ELSE LET able == SelectSeq(Profiles, LAMBDA p :
                     /\ p.wav = IsWav(r)
                     /\ r.volume \in {Unset, 10} \/ p.volume
                     /\ r.device = Unset \/ p.device)
       IN  [i \in DOMAIN able |-> able[i].bin]

\* The first candidate that is installed is started.
Startable(r) == ToSet(PlayerChain(r)) \cap HostPlayers # {}

-----------------------------------------------------------------------------
SoundInit ==
  /\ soundStep = [pc |-> "idle"]
  /\ clips = {} /\ nextClip = 0
  /\ playing = {} /\ tempFiles = {}
  /\ soundMillis = 0
  /\ abandoned = {} /\ orphans = {} /\ sameName = FALSE
  /\ soundSpent = [plays |-> 0, faults |-> 0, crashes |-> 0]

\* reap_finished: clips whose process has exited go, and their files with them.
\* Mutant: every clip's file goes.
Reaped_AllFiles == {f \in tempFiles : ~\E c \in clips : c.file = f.name}
Alive == {c \in clips : c.key \in playing}
Reaped == {f \in tempFiles : ~\E c \in clips \ Alive : c.file = f.name}

\* start_kill on every clip: the files stay.
Killed(cs) == playing \ {c.key : c \in cs}
FilesOf(cs) == {c.file : c \in cs} \ {Unset}

\* The clip a play is about to start; key tells the processes of all runs apart.
NewKey == soundSpent.plays + 1
TempFile(name, whole) == [name |-> name, clip |-> NewKey, whole |-> whole]
Others(name) == {f \in Reaped : f.name # name}

\* sound_play up to the started player: reap, resolve the source, write inline
\* audio to a file, try the candidates. When no candidate is installed the file
\* is removed.
PlayClip(r) ==
  /\ soundStep.pc = "idle"
  /\ soundSpent.plays < MaxPlays
  /\ r.action = "sound_play"
  /\ LET name == IF ValidPlay(r) /\ r.data # Unset THEN <<soundMillis, r.format>> ELSE Unset
         written == IF name = Unset THEN Reaped
                    ELSE Others(name) \cup {TempFile(name, TRUE)}
     IN  /\ soundSpent' = [soundSpent EXCEPT !.plays = @ + 1]
         /\ sameName' = (sameName \/ (name # Unset /\ SourceFits(r)
                                       /\ \E f \in Reaped : f.name = name))
         /\ IF ~ValidPlay(r)
              THEN UNCHANGED <<soundStep, clips, playing, tempFiles>>
            ELSE IF ~SourceFits(r)
              THEN clips' = Alive /\ tempFiles' = Reaped /\ UNCHANGED <<soundStep, playing>>
            ELSE IF ~Startable(r)
              THEN /\ clips' = Alive
                   /\ tempFiles' = Others(name)
                   /\ UNCHANGED <<soundStep, playing>>
            ELSE /\ clips' = Alive
                 /\ tempFiles' = written
                 /\ playing' = playing \cup {NewKey}
                 /\ soundStep' = [pc |-> "started", file |-> name]
  /\ UNCHANGED <<nextClip, soundMillis, abandoned, orphans>>

\* Inline audio cannot be written: the request ends there, and what the failed
\* write has left on the disk stays, as a file of no clip.
WriteFails(r) ==
  /\ soundStep.pc = "idle"
  /\ soundSpent.plays < MaxPlays
  /\ soundSpent.faults < MaxSoundFaults
  /\ r.action = "sound_play" /\ ValidPlay(r) /\ r.data # Unset /\ SourceFits(r)
  /\ soundSpent' = [soundSpent EXCEPT !.plays = @ + 1, !.faults = @ + 1]
  /\ clips' = Alive
  /\ LET name == <<soundMillis, r.format>>
     IN  /\ tempFiles' \in {Reaped, Others(name) \cup {TempFile(name, FALSE)}}
         /\ sameName' = (sameName \/ \E f \in Reaped : f.name = name)
  /\ UNCHANGED <<soundStep, nextClip, playing, soundMillis, abandoned, orphans>>

\* Mutant: the file of a clip that does not start is kept.
PlayFails_Keeps(r) ==
  /\ soundStep.pc = "idle"
  /\ soundSpent.plays < MaxPlays
  /\ soundSpent.faults < MaxSoundFaults
  /\ r.action = "sound_play" /\ ValidPlay(r) /\ SourceFits(r) /\ Startable(r)
  /\ soundSpent' = [soundSpent EXCEPT !.plays = @ + 1, !.faults = @ + 1]
  /\ clips' = Alive
  /\ LET name == IF r.data # Unset THEN <<soundMillis, r.format>> ELSE Unset
     IN  /\ tempFiles' = IF name = Unset THEN Reaped
                         ELSE Others(name) \cup {TempFile(name, TRUE)}
         /\ sameName' = (sameName \/ \E f \in Reaped : f.name = name)
  /\ UNCHANGED <<soundStep, nextClip, playing, soundMillis, abandoned, orphans>>

\* A candidate is installed and does not start: the file goes, the rest of the
\* chain is not tried.
PlayFails(r) ==
  /\ soundStep.pc = "idle"
  /\ soundSpent.plays < MaxPlays
  /\ soundSpent.faults < MaxSoundFaults
  /\ r.action = "sound_play" /\ ValidPlay(r) /\ SourceFits(r) /\ Startable(r)
  /\ soundSpent' = [soundSpent EXCEPT !.plays = @ + 1, !.faults = @ + 1]
  /\ clips' = Alive
  /\ LET name == IF r.data # Unset THEN <<soundMillis, r.format>> ELSE Unset
     IN  /\ tempFiles' = Others(name)
         /\ sameName' = (sameName \/ \E f \in Reaped : f.name = name)
  /\ UNCHANGED <<soundStep, nextClip, playing, soundMillis, abandoned, orphans>>

\* The rest of sound_play: kill_all, and the new clip is the only one.
\* Mutant: the playing clip is forgotten but not killed.
TakeSpeakers_Keeps ==
  /\ soundStep.pc = "started"
  /\ abandoned' = abandoned \cup FilesOf(clips)
  /\ nextClip' = nextClip + 1
  /\ clips' = {[id |-> nextClip + 1, key |-> soundSpent.plays, file |-> soundStep.file]}
  /\ soundStep' = [pc |-> "idle"]
  /\ UNCHANGED <<playing, tempFiles, soundMillis, orphans, sameName, soundSpent>>
TakeSpeakers ==
  /\ soundStep.pc = "started"
  /\ playing' = Killed(clips)
  /\ abandoned' = abandoned \cup FilesOf(clips)
  /\ nextClip' = nextClip + 1
  /\ clips' = {[id |-> nextClip + 1, key |-> soundSpent.plays, file |-> soundStep.file]}
  /\ soundStep' = [pc |-> "idle"]
  /\ UNCHANGED <<tempFiles, soundMillis, orphans, sameName, soundSpent>>

\* sound_stop of one clip or of all; sound_status only reaps.
Stopped(r) == CASE r.action = "sound_status" -> {}
                [] r.action = "sound_stop" -> {c \in Alive : r.clip \in {Unset, c.id}}

StopOrStatus(r) ==
  /\ soundStep.pc = "idle"
  /\ r.action \in {"sound_stop", "sound_status"}
  /\ clips' = Alive \ Stopped(r)
  /\ tempFiles' = Reaped
  /\ playing' = Killed(Stopped(r))
  /\ abandoned' = abandoned \cup FilesOf(Stopped(r))
  /\ UNCHANGED <<soundStep, nextClip, soundMillis, orphans, sameName, soundSpent>>

\* A player comes to the end of its clip.
PlayerEnds(k) ==
  /\ k \in playing
  /\ playing' = playing \ {k}
  /\ UNCHANGED <<soundStep, clips, nextClip, tempFiles, soundMillis, abandoned, orphans,
                 sameName, soundSpent>>

SoundTick ==
  /\ soundMillis < MaxSoundMillis
  /\ soundMillis' = soundMillis + 1
  /\ UNCHANGED <<soundStep, clips, nextClip, playing, tempFiles, abandoned, orphans,
                 sameName, soundSpent>>

\* The kernel asks the plugin to stop, or the connection ends: every clip is
\* killed. A process that dies kills nothing; its players play on.
SoundRestarts(left) ==
  /\ soundSpent.crashes < MaxSoundCrashes
  /\ soundSpent' = [soundSpent EXCEPT !.crashes = @ + 1]
  /\ playing' = left
  /\ orphans' = orphans \cup left
  /\ abandoned' = abandoned \cup {f.name : f \in tempFiles}
  /\ clips' = {} /\ nextClip' = 0
  /\ soundStep' = [pc |-> "idle"]
  /\ UNCHANGED <<tempFiles, soundMillis, sameName>>

SoundShutdown == soundStep.pc = "idle" /\ SoundRestarts(Killed(clips))
SoundDies == SoundRestarts(playing)

SoundNext ==
  \/ \E r \in SoundRequests : PlayClip(r) \/ WriteFails(r) \/ PlayFails(r) \/ StopOrStatus(r)
  \/ TakeSpeakers
  \/ \E k \in playing : PlayerEnds(k)
  \/ SoundTick \/ SoundShutdown \/ SoundDies

SoundSpec == SoundInit /\ [][SoundNext]_soundVars

-----------------------------------------------------------------------------
(* Between two requests at most one player runs, and sound_stop would end  *)
(* it: it belongs to a clip of the map, or it has outlived a process that  *)
(* was killed. Every temporary file that was written in full belongs to a  *)
(* clip of the map or to one that was killed instead of ending: a play     *)
(* that ends with an error leaves none, but for what a failed write has    *)
(* left of its own. And the file of a clip is there and holds all its      *)
(* audio until the clip is reaped, unless two clips were given one name    *)
(* within a millisecond.                                                   *)
SpeakersHaveOneOwner ==
  soundStep.pc = "idle" =>
    /\ Cardinality(clips) <= 1
    /\ playing \subseteq {c.key : c \in clips} \cup orphans
    /\ {f.name : f \in {g \in tempFiles : g.whole}} \subseteq FilesOf(clips) \cup abandoned
    /\ ~sameName => \A c \in clips : c.file # Unset =>
                       [name |-> c.file, clip |-> c.key, whole |-> TRUE] \in tempFiles
=============================================================================
