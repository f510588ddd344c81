----------------------------- MODULE MCPlugins ------------------------------
(***************************************************************************)
(* The smaller plugins, one after the other in one run: the variable       *)
(* plugin, chosen at the start, says whose process takes the steps. The    *)
(* plugins are separate processes that share no state but the kernel, and  *)
(* what one tells another is among the inputs of its module: interleaving  *)
(* them would multiply the states and add no behaviour.                    *)
(***************************************************************************)
EXTENDS Vault, Notify, Network, Sound, Notes, Listen, Assistant, Cloud, Speak,
        Files, Media, Desktop

VARIABLE plugin

PluginNames == {"vault", "notify", "network", "sound", "notes", "listen", "assistant",
                "cloud", "speak", "files", "media", "desktop"}

\* A plugin that is not the chosen one has one initial state.
Fixed(name, value, choices) == plugin = name \/ value = CHOOSE v \in choices : TRUE

PluginsInit ==
  /\ plugin \in PluginNames
  /\ VaultInit /\ Fixed("vault", vaultKey, StartKeys)
  /\ NotifyInit /\ NetInit /\ SoundInit /\ NotesInit
  /\ ListenInit /\ Fixed("listen", model, ModelDirs)
  /\ AiInit /\ Fixed("assistant", aiCfg, AiConfigs)
  /\ CloudInit /\ Fixed("cloud", cloudVault, VaultKeys)
  /\ SpeakInit /\ Fixed("speak", voiceModel, VoiceModels)
  /\ FilesInit
  /\ MediaInit /\ Fixed("media", [players |-> allowed, default |-> defaultPlayer], MediaConfigs)
  /\ DesktopInit /\ Fixed("desktop", desktop, Desktops)

\* The chosen plugin takes a step, everything else stands still.
PluginsNext ==
  \/ /\ plugin = "vault" /\ VaultNext
     /\ UNCHANGED <<plugin, notifyVars, netVars, soundVars, noteVars, listenVars, aiVars,
                    cloudVars, speakVars, filesVars, mediaVars, desktopVars>>
  \/ /\ plugin = "notify" /\ NotifyNext
     /\ UNCHANGED <<plugin, vaultVars, netVars, soundVars, noteVars, listenVars, aiVars,
                    cloudVars, speakVars, filesVars, mediaVars, desktopVars>>
  \/ /\ plugin = "network" /\ NetNext
     /\ UNCHANGED <<plugin, vaultVars, notifyVars, soundVars, noteVars, listenVars, aiVars,
                    cloudVars, speakVars, filesVars, mediaVars, desktopVars>>
  \/ /\ plugin = "sound" /\ SoundNext
     /\ UNCHANGED <<plugin, vaultVars, notifyVars, netVars, noteVars, listenVars, aiVars,
                    cloudVars, speakVars, filesVars, mediaVars, desktopVars>>
  \/ /\ plugin = "notes" /\ NotesNext
     /\ UNCHANGED <<plugin, vaultVars, notifyVars, netVars, soundVars, listenVars, aiVars,
                    cloudVars, speakVars, filesVars, mediaVars, desktopVars>>
  \/ /\ plugin = "listen" /\ ListenNext
     /\ UNCHANGED <<plugin, vaultVars, notifyVars, netVars, soundVars, noteVars, aiVars,
                    cloudVars, speakVars, filesVars, mediaVars, desktopVars>>
  \/ /\ plugin = "assistant" /\ AiNext
     /\ UNCHANGED <<plugin, vaultVars, notifyVars, netVars, soundVars, noteVars, listenVars,
                    cloudVars, speakVars, filesVars, mediaVars, desktopVars>>
  \/ /\ plugin = "cloud" /\ CloudNext
     /\ UNCHANGED <<plugin, vaultVars, notifyVars, netVars, soundVars, noteVars, listenVars,
                    aiVars, speakVars, filesVars, mediaVars, desktopVars>>
  \/ /\ plugin = "speak" /\ SpeakNext
     /\ UNCHANGED <<plugin, vaultVars, notifyVars, netVars, soundVars, noteVars, listenVars,
                    aiVars, cloudVars, filesVars, mediaVars, desktopVars>>
  \/ /\ plugin = "files" /\ FilesNext
     /\ UNCHANGED <<plugin, vaultVars, notifyVars, netVars, soundVars, noteVars, listenVars,
                    aiVars, cloudVars, speakVars, mediaVars, desktopVars>>
  \/ /\ plugin = "media" /\ MediaNext
     /\ UNCHANGED <<plugin, vaultVars, notifyVars, netVars, soundVars, noteVars, listenVars,
                    aiVars, cloudVars, speakVars, filesVars, desktopVars>>
  \/ /\ plugin = "desktop" /\ DesktopNext
     /\ UNCHANGED <<plugin, vaultVars, notifyVars, netVars, soundVars, noteVars, listenVars,
                    aiVars, cloudVars, speakVars, filesVars, mediaVars>>

pluginsVars == <<plugin, vaultVars, notifyVars, netVars, soundVars, noteVars, listenVars, aiVars,
                 cloudVars, speakVars, filesVars, mediaVars, desktopVars>>

PluginsSpec == PluginsInit /\ [][PluginsNext]_pluginsVars

-----------------------------------------------------------------------------
(* Vault: one caller sets and deletes one secret, from two tasks. *)
MCVaultRequests == {SecretRequest("secret_set", 1, 1), SecretRequest("secret_delete", 1, Gone)}
MCKeyTexts == {[chars |-> 64, bytes |-> 32, key |-> "k1"],
               [chars |-> 44, bytes |-> 32, key |-> "k2"],
               [chars |-> 44, bytes |-> 31, key |-> "k2"]}

-----------------------------------------------------------------------------
(* Notify: an enabled and a disabled provider, spoken, silent, too long. *)
Send(provider, message, silent, speak) ==
  [action |-> "notify_send", provider |-> provider, message |-> message, title |-> 0,
   urgency |-> NoneGiven, timeout_ms |-> 0, silent |-> silent, speak |-> speak]
MCNotifyRequests ==
  {Send("espeak", 1, FALSE, TRUE), Send("wall", 1, FALSE, FALSE), Send("wall", 1, TRUE, FALSE),
   Send("wall", 5000, TRUE, FALSE), [action |-> "notify_delete", idBytes |-> 15],
   [action |-> "notify_mark_read", idBytes |-> 15]}

-----------------------------------------------------------------------------
(* Network: a name that may resolve to a blocked address, with cookies; an  *)
(* address that is retried and redirected; a blocked one with two bodies.   *)
Http(host, ttl, cookies, again) ==
  [method |-> "GET", url |-> 30, scheme |-> "http", host |-> host, headers |-> 0,
   headerBytes |-> 0, body |-> NotSet, body_base64 |-> NotSet, multipart |-> NotSet,
   cache_ttl_ms |-> ttl, use_cookies |-> cookies, ownCookie |-> FALSE, max_retries |-> again,
   follow_redirects |-> again > 0, max_redirects |-> again]
MCHttpRequests == {Http("name", 1, TRUE, 0), Http("pub", 1, FALSE, 1),
                   [Http("priv", 0, FALSE, 0) EXCEPT !.body = 1, !.body_base64 = 1]}

-----------------------------------------------------------------------------
(* Sound: clips that fit and that do not, by data and by file. *)
Inline(bytes, volume) ==
  [action |-> "sound_play", file |-> Unset, data |-> [bytes |-> bytes, base64 |-> TRUE],
   format |-> [length |-> 3, alphanumeric |-> TRUE, wav |-> TRUE], volume |-> volume,
   device |-> Unset]
FromFile ==
  [action |-> "sound_play", file |-> [absolute |-> TRUE, exists |-> TRUE, bytes |-> 5, wav |-> TRUE],
   data |-> Unset, format |-> Unset, volume |-> Unset, device |-> "d"]
MCSoundRequests ==
  {Inline(3, Unset), Inline(9, Unset), Inline(3, 5), Inline(3, 101), FromFile,
   [action |-> "sound_stop", clip |-> Unset], [action |-> "sound_stop", clip |-> 1],
   [action |-> "sound_status"]}

-----------------------------------------------------------------------------
(* Notes: one stored document that two tasks change, delete and list. *)
NoteText(n) == [bytes |-> n]
MCNotesStored == <<[title |-> NoteText(2), body |-> NoteText(2), tags |-> <<>>]>>
MCNoteRequests ==
  {[action |-> "note_create", title |-> Blank, body |-> Blank, tags |-> <<>>],
   [action |-> "note_create", title |-> NoteText(3), body |-> Blank,
    tags |-> <<Blank, NoteText(1), NoteText(1)>>],
   [action |-> "note_update", id |-> 1, title |-> Blank, body |-> Absent, tags |-> Absent],
   [action |-> "note_update", id |-> 1, title |-> Absent, body |-> Blank, tags |-> Absent],
   [action |-> "note_delete", id |-> 1], [action |-> "note_list", limit |-> 5]}

-----------------------------------------------------------------------------
(* Listen: one stream, chunks at its rate and at another, and uploads. *)
Chunk(id, rate, bytes, channels) ==
  [kind |-> "chunk", id |-> id, rate |-> rate, bytes |-> bytes, channels |-> channels, pcm |-> TRUE]
Upload(format, chunks) ==
  [kind |-> "transcribe", provider |-> "sherpa", format |-> format, size |-> 1, fmt |-> "pcm16",
   channels |-> 2, rate |-> 16, chunks |-> chunks]
MCListenFrames ==
  {[kind |-> "start", id |-> 1, rate |-> 16, channels |-> 1], [kind |-> "stop", id |-> 1],
   Chunk(1, 16, 4, 2), Chunk(1, 8, 4, 1),
   Upload("wav", <<[data |-> FALSE, bytes |-> 8], [data |-> TRUE, bytes |-> 6],
                   [data |-> TRUE, bytes |-> 4]>>),
   [kind |-> "transcribe", provider |-> "openai", format |-> "mp3", size |-> 1, keyEnv |-> "KEY"],
   [kind |-> "models", provider |-> "sherpa"]}
MCModelDirs == {[family |-> "whisper", files |-> WhisperFiles],
                [family |-> "transducer", files |-> WhisperFiles]}

-----------------------------------------------------------------------------
(* Assistant: discovery alone, and beside models the operator declares. *)
AiModel(id, at, default) == [id |-> id, at |-> at, default |-> default]
AiAgent(id, chosen, default) == [id |-> id, model |-> chosen, default |-> default]
AiSource(provider, ids) == [provider |-> provider, ids |-> ids]
MCAiConfigs ==
  {[models |-> <<>>, agents |-> <<AiAgent(1, 2, TRUE)>>,
    sources |-> <<AiSource("ollama", <<1, 2>>)>>],
   [models |-> <<AiModel(2, "anthropic", TRUE), AiModel(3, "openai", TRUE)>>, agents |-> <<>>,
    sources |-> <<AiSource("openai", <<3>>), AiSource("ollama", <<1>>)>>]}
Chat(agent, provider, chosen, messages) ==
  [agent |-> agent, provider |-> provider, model |-> chosen, keyEnv |-> TRUE, baseUrl |-> TRUE,
   messages |-> messages]
MCChatRequests == {Chat(1, "none", 0, 1), Chat(0, "openai", 3, 1), Chat(0, "openai", 3, 0)}

-----------------------------------------------------------------------------
(* Cloud: a search and a synthesis, one naming a variable no key may be in. *)
Search(keyEnv, baseUrl) ==
  [action |-> "web_search", query |-> 1, provider |-> "brave", keyEnv |-> keyEnv,
   baseUrl |-> baseUrl]
Speech(voice, format, keyEnv) ==
  [action |-> "tts_synthesize", provider |-> "openai", text |-> 1, voice |-> voice,
   format |-> format, keyEnv |-> keyEnv, baseUrl |-> ""]
MCCloudRequests == {Search("KEY", ""), Search("PATH", "elsewhere"), Speech("alloy", "pcm", "OTHER")}
HttpBack(status, body) == [status |-> status, body |-> body]
MCHttpAnswers ==
  {HttpBack(200, [kind |-> "json", hits |-> 0]), HttpBack(200, [kind |-> "text"]),
   HttpBack(500, [kind |-> "json", hits |-> 1]), [status |-> 0]}

-----------------------------------------------------------------------------
(* Speak: voices by name and by number, for models with few and many. *)
Utter(voice, rate, stream) ==
  [action |-> "tts_speak", provider |-> "sherpa", text |-> 1, voice |-> voice, rate |-> rate,
   target |-> "player", stream |-> stream]
ToFile(format, name) ==
  [action |-> "tts_synthesize", format |-> format, voice |-> [name |-> name]]
MCSpeakRequests ==
  {Utter([name |-> "ff_siwis"], 24000, 1), Utter([sid |-> 1], 0, 1), Utter([sid |-> 0], 8000, 2),
   [Utter([sid |-> 0], 8000, 2) EXCEPT !.provider = "openai"],
   ToFile("wav", "am_adam"), ToFile("opus", "am_adam"), [action |-> "tts_voices"]}
VModel(family, files, speakers, rate) ==
  [family |-> family, files |-> files, speakers |-> speakers, rate |-> rate]
MCVoiceModels ==
  {VModel("kokoro", KokoroFiles, 9, 24000), VModel("kokoro", KokoroFiles, 26, 24000),
   VModel("kokoro", PiperFiles, 26, 24000), VModel("piper", PiperFiles, 1, 22050),
   VModel("piper", PiperFiles, 2, 16000)}

-----------------------------------------------------------------------------
(* Files: a home with a file, a link out of it, a link to nothing; and the  *)
(* data directory of the gated writes, with a link out of it.               *)
MCFileNames == {"home", "data", "etc", "new", "gone", "out", "f", ".hidden", "nowhere", "a", "d", "g"}
Home == <<"home">>
Data == <<"data">>
Etc == <<"etc">>
InHome(name) == <<"home", name>>
MCDisks ==
  {[p \in {<<>>, Home, Data, Etc, <<"etc", "f">>, InHome("f"), InHome("out"), InHome("gone"),
           InHome(".hidden"), <<"data", "out">>} |->
      CASE p = <<"etc", "f">> -> FileOf(<<9>>)
        [] p = InHome("f") -> FileOf(<<1, 200>>)
        [] p = InHome(".hidden") -> FileOf(<<>>)
        [] p \in {InHome("out"), <<"data", "out">>} -> LinkTo(Etc)
        [] p = InHome("gone") -> LinkTo(<<"home", "new">>)
        [] OTHER -> Dir]}
MCRawRoots == {[absolute |-> TRUE, path |-> Home], [absolute |-> FALSE, path |-> Home],
               [absolute |-> TRUE, path |-> <<"nowhere">>]}
FRead(path, offset, max) ==
  [action |-> "fs_read", absolute |-> TRUE, path |-> path, offset |-> offset, max |-> max]
FWrite(path, content, parents) ==
  [action |-> "fs_write", absolute |-> TRUE, path |-> path, content |-> content,
   parents |-> parents]
FList(path, hidden) == [action |-> "fs_list", absolute |-> TRUE, path |-> path, hidden |-> hidden]
Bytes(b) == [text |-> b]
MCFileRequests ==
  {FRead(InHome("f"), 1, 1), FRead(<<"home", "out", "f">>, 0, NoLimit),
   FWrite(InHome("f"), Bytes(<<3>>), FALSE),
   FWrite(<<"home", "new", "f">>, [base64 |-> <<4, 5, 6>>], TRUE),
   FWrite(<<"home", "gone", "f">>, Bytes(<<7>>), FALSE),
   FWrite(InHome("f"), [text |-> <<1>>, base64 |-> <<1>>], FALSE), FList(Home, FALSE)}
GParams(path, mode) == [relative |-> TRUE, path |-> path, mode |-> mode, bytes |-> <<1>>]
MCGatedRequests ==
  {GParams(<<"a", "f">>, "append"), GParams(<<"a", "f", "g">>, "append"),
   GParams(<<"out", "d", "f">>, "overwrite"), GParams(<<"a", "f">>, "truncate")}
MCDataDir == Data
MCConfirmers == {[allowed |-> TRUE], [allowed |-> FALSE]}

-----------------------------------------------------------------------------
(* Media: a player that reports no changes and one that refuses to pause. *)
PKind(name, reports, setpos, lag, cannot) ==
  [name |-> name, reports |-> reports, setpos |-> setpos, tracks |-> TRUE, lag |-> lag,
   cannot |-> cannot]
MCMediaPlayers == <<PKind("firefox", FALSE, TRUE, 3, {}), PKind("mpv", TRUE, FALSE, 0, {"CanPause"})>>
MReq(action, player, arg) == [action |-> action, player |-> player, arg |-> arg, typed |-> TRUE]
MCMediaRequests ==
  {MReq("media_status", NoPlayer, 0), MReq("media_list_players", NoPlayer, 0),
   MReq("media_play_pause", NoPlayer, 0), MReq("media_next", "mpv", 0),
   MReq("media_seek", "firefox", 3), MReq("media_seek_relative", "mpv", -2),
   MReq("media_volume", NoPlayer, [int |-> 1])}
MCMediaConfigs == {[players |-> {}, default |-> NoPlayer], [players |-> {"firefox"}, default |-> "mpv"]}

-----------------------------------------------------------------------------
(* Desktop: X11 and Wayland sessions with different tools, and none at all. *)
FirstDevice == [volume |-> 40, muted |-> FALSE, raw |-> 3, profile |-> "balanced", known |-> "balanced", coming |-> <<>>,
                locked |-> FALSE, charge |-> 80, battery |-> 5, board |-> EmptyText]
Machine(tools, services, panel, session, prefers) ==
  [tools |-> tools, services |-> services, panel |-> panel, session |-> session,
   prefers |-> prefers, first |-> FirstDevice]
Backlight(writable) == {[max |-> 7, writable |-> writable]}
MCDesktops ==
  {Machine({"wpctl", "pactl", "xsel", "xclip"}, {"bus", "upower", "ppd"}, Backlight(TRUE), "x11", "auto"),
   Machine({"pactl", "wl-copy", "xsel"}, {"bus"}, Backlight(FALSE), "wayland", "auto"),
   Machine({"wl-paste", "xsel"}, {}, {}, "wayland", "x11"),
   Machine({}, {}, {}, "none", "auto")}
SReq(action, arg) == [action |-> action, arg |-> arg]
MCSysRequests ==
  {SReq("sys_volume", "none"), SReq("sys_volume_set", 65), SReq("sys_volume_set", 20),
   SReq("sys_volume_set", 101), SReq("sys_volume_mute", "toggle"), SReq("sys_brightness_set", 0),
   SReq("sys_brightness_set", 50), SReq("sys_brightness", "none"), SReq("sys_battery", "none"),
   SReq("sys_lock", "none"), SReq("sys_power_profile", "none"),
   SReq("sys_power_profile_set", "power-saver")}
ClipText(n) == [size |-> n, utf8 |-> TRUE]
CReq(action, text) == [action |-> action, text |-> text]
MCClipRequests ==
  {CReq("clipboard_read", EmptyText), CReq("clipboard_providers", EmptyText),
   CReq("clipboard_write", ClipText(1)), CReq("clipboard_write", ClipText(2)),
   CReq("clipboard_write", EmptyText)}
=============================================================================
