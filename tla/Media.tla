------------------------------- MODULE Media --------------------------------
(***************************************************************************)
(* The media plugin: it serves one media_* request after the other with    *)
(* calls to the MPRIS players on the session bus, while the players go on  *)
(* by themselves, a supervisor starts a watcher for each, and the watchers *)
(* note in POS_CACHE what the players signal. Time and positions are in    *)
(* ticks.                                                                  *)
(***************************************************************************)
EXTENDS Integers, Sequences

CONSTANTS
  MediaPlayers,    \* the bus names of players, in order, and what each can do
  MediaConfigs,    \* MEDIA_PLUGIN_PLAYERS, empty for any player, and
                   \* MEDIA_PLUGIN_DEFAULT_PLAYER, or NoPlayer
  MediaRequests,   \* requests: action, player, argument and whether its type is right
  SeekTargets,     \* positions a user moves a player to
  MaxAge,          \* EXTRAPOLATION_MAX_AGE_MS
  MaxI64,          \* the largest i64, in microseconds
  MaxTicks,        \* bound: time
  MaxPlayerEvents, \* bound: what users do to players
  MaxMediaReplies  \* bound: requests

VARIABLES
  mediaNow,      \* the clock
  players,       \* name -> what the player is doing
  allowed,       \* the allowlist of this process
  defaultPlayer, \* the default of this process
  watchers,      \* WATCHED: players with a watcher
  signals,       \* name -> signals on their way to the watcher
  posCache,      \* POS_CACHE: name -> position, rate, time
  metaCache,     \* META_CACHE: name -> field -> what was last known of it
  mediaWork,     \* the request being served
  interrupted,   \* history: players paused, at another track, or gone, or asked
                 \* for their status before their signals had come
  mediaReply,    \* history: the request the last step replied to, with the reply
  mediaServed,   \* requests served
  playerEvents   \* events so far

mediaVars == <<mediaNow, players, allowed, defaultPlayer, watchers, signals, posCache, metaCache,
               mediaWork, interrupted, mediaReply, mediaServed, playerEvents>>
mediaWorld == <<mediaNow, players, allowed, defaultPlayer, watchers, signals, interrupted, playerEvents>>

\* What the requests may be, and what the users' program can seek to. A seek's
\* argument is an unsigned, an offset a signed integer if its type is right.
MediaActions ==
  {"media_play", "media_pause", "media_next", "media_prev", "media_stop", "media_play_pause",
   "media_volume", "media_shuffle", "media_loop", "media_seek", "media_seek_relative",
   "media_status", "media_list_players"}
ASSUME MediaAssumption ==
  /\ MediaPlayers \in Seq([name : STRING, reports : BOOLEAN, setpos : BOOLEAN, tracks : BOOLEAN,
                           lag : Nat, cannot : SUBSET STRING])
  /\ \A r \in MediaRequests :
       /\ r.action \in MediaActions
       /\ r.action = "media_seek" /\ r.typed => r.arg \in Nat
       /\ r.action = "media_seek_relative" /\ r.typed => r.arg \in Int
  /\ SeekTargets \subseteq Nat /\ MaxI64 \in Nat

NoPlayer == "(none)"
NoRequest == [at |-> "idle"]
Names == {MediaPlayers[i].name : i \in DOMAIN MediaPlayers}
Kind(p) == MediaPlayers[CHOOSE i \in DOMAIN MediaPlayers : MediaPlayers[i].name = p]
OnBus == {p \in Names : players[p].up}
Fields == {"title", "length"}
Unknown == 0
NoReply == mediaReply' = <<>>

MediaInit ==
  /\ mediaNow = 0
  /\ players = [p \in Names |-> [up |-> TRUE, playing |-> TRUE, pos |-> 0, track |-> 1,
                                 rate |-> 1, stale |-> 0, volume |-> 50, loop |-> "None"]]
  /\ \E c \in MediaConfigs : allowed = c.players /\ defaultPlayer = c.default
  /\ watchers = {} /\ signals = [p \in Names |-> <<>>]
  /\ posCache = <<>> /\ metaCache = [p \in Names |-> [f \in Fields |-> Unknown]]
  /\ mediaWork = NoRequest /\ interrupted = {} /\ mediaReply = <<>> /\ mediaServed = 0
  /\ playerEvents = 0

-----------------------------------------------------------------------------
(* The players. *)
Signalled(p, signal) ==
  signals' = IF p \in watchers THEN [signals EXCEPT ![p] = Append(@, signal)] ELSE signals

\* Time passes: those that play move on.
Tick ==
  /\ mediaNow < MaxTicks /\ mediaNow' = mediaNow + 1
  /\ players' = [p \in Names |-> IF players[p].playing
                                   THEN [players[p] EXCEPT !.pos = @ + players[p].rate] ELSE players[p]]
  /\ UNCHANGED <<allowed, defaultPlayer, watchers, signals, posCache, metaCache, mediaWork,
                 interrupted, mediaServed, playerEvents>>
  /\ NoReply

PlayerEvent(p) ==
  /\ p \in OnBus /\ playerEvents < MaxPlayerEvents /\ playerEvents' = playerEvents + 1
  /\ UNCHANGED <<mediaNow, allowed, defaultPlayer, posCache, metaCache, mediaWork, mediaServed>>
  /\ NoReply

\* No watcher hears of it, or a status that has been read is not answered yet.
Unnoticed(p) == p \notin watchers \/ (mediaWork.at = "answer" /\ mediaWork.player = p)
Overheard(p) == interrupted' = IF Unnoticed(p) THEN interrupted \cup {p} ELSE interrupted

\* A user moves the player: it signals Seeked.
UserSeek(p, pos) ==
  /\ PlayerEvent(p) /\ players' = [players EXCEPT ![p].pos = pos]
  /\ Signalled(p, [pos |-> pos]) /\ Overheard(p) /\ UNCHANGED watchers

\* A user turns to the other of two rates.
UserRate(p) ==
  /\ PlayerEvent(p) /\ players' = [players EXCEPT ![p].rate = 3 - @]
  /\ Signalled(p, [rate |-> 3 - players[p].rate]) /\ Overheard(p) /\ UNCHANGED watchers

UserPause(p) ==
  /\ PlayerEvent(p) /\ players' = [players EXCEPT ![p].playing = ~@]
  /\ Signalled(p, [playing |-> ~players[p].playing])
  /\ interrupted' = interrupted \cup {p} /\ UNCHANGED watchers

\* Another track begins: its metadata changes, which no watcher looks at.
NextTrack(p) ==
  /\ PlayerEvent(p) /\ players' = [players EXCEPT ![p].track = @ + 1, ![p].pos = 0]
  /\ interrupted' = interrupted \cup {p} /\ UNCHANGED <<signals, watchers>>

\* The player leaves the bus; its watcher's streams end.
Vanish(p) ==
  /\ PlayerEvent(p) /\ players' = [players EXCEPT ![p].up = FALSE, ![p].playing = FALSE]
  /\ watchers' = watchers \ {p} /\ signals' = [signals EXCEPT ![p] = <<>>]
  /\ interrupted' = interrupted \cup {p}

-----------------------------------------------------------------------------
(* The watchers. *)
IsAllowed(p) == allowed = {} \/ p \in allowed
Listed == {p \in OnBus : IsAllowed(p)}

\* The scan every five seconds: a watcher for every player without one.
Scan ==
  /\ watchers # Listed \cup watchers /\ watchers' = Listed \cup watchers
  /\ UNCHANGED <<mediaNow, players, allowed, defaultPlayer, signals, posCache, metaCache, mediaWork,
                 interrupted, mediaServed, playerEvents>>
  /\ NoReply

Cached(p) == IF p \in DOMAIN posCache THEN posCache[p] ELSE [pos |-> 0, rate |-> 1, at |-> mediaNow]
Stored(p, entry) == posCache' = [q \in DOMAIN posCache \cup {p} |-> IF q = p THEN entry ELSE posCache[q]]

\* cache_note: a position, a rate, or rate 0 for a player that no longer plays.
Note(p) ==
  /\ signals[p] # <<>> /\ signals' = [signals EXCEPT ![p] = Tail(@)]
  /\ LET signal == Head(signals[p]) IN
     CASE "pos" \in DOMAIN signal -> Stored(p, [Cached(p) EXCEPT !.pos = signal.pos, !.at = mediaNow])
       [] "rate" \in DOMAIN signal -> Stored(p, [Cached(p) EXCEPT !.rate = signal.rate, !.at = mediaNow])
       [] "playing" \in DOMAIN signal /\ ~signal.playing
            -> Stored(p, [Cached(p) EXCEPT !.rate = 0, !.at = mediaNow])
       [] OTHER -> UNCHANGED posCache
  /\ UNCHANGED <<mediaNow, players, allowed, defaultPlayer, watchers, metaCache, mediaWork,
                 interrupted, mediaServed, playerEvents>>
  /\ NoReply

-----------------------------------------------------------------------------
(* Requests. *)
MediaRefused == [ok |-> FALSE]
MediaGoto(work) == mediaWork' = work /\ NoReply /\ UNCHANGED mediaServed
Kept(work, reply) ==
  /\ mediaReply' = <<[work |-> work, reply |-> reply, calm |-> playerEvents = work.events,
                      took |-> mediaNow - work.since]>>
  /\ mediaServed' = mediaServed + 1
MediaReply(reply) == Kept(mediaWork, reply) /\ mediaWork' = NoRequest
MediaAt(at) == mediaWork.at = at

\* The first player on the bus, by name, that is allowed.
FirstListed ==
  LET first(i) == /\ MediaPlayers[i].name \in Listed
                  /\ \A j \in 1..i - 1 : MediaPlayers[j].name \notin Listed
  IN MediaPlayers[CHOOSE i \in DOMAIN MediaPlayers : first(i)].name

\* resolve_player: the one asked for, the default, or the first by name.
\* Mutant: the default is not compared with the allowlist.
Resolved_AnyDefault(p) ==
  IF p # NoPlayer THEN IF p \in Listed THEN p ELSE NoPlayer
  ELSE IF defaultPlayer \in OnBus THEN defaultPlayer
  ELSE IF Listed # {} THEN FirstListed ELSE NoPlayer
Resolved(p) ==
  IF p # NoPlayer THEN IF p \in Listed THEN p ELSE NoPlayer
  ELSE IF defaultPlayer # NoPlayer /\ ~IsAllowed(defaultPlayer) THEN NoPlayer
  ELSE IF defaultPlayer \in Listed THEN defaultPlayer
  ELSE IF Listed # {} THEN FirstListed ELSE NoPlayer

\* parse_volume: integers are percentages; a float is a fraction up to 1.0,
\* and a percentage above. Floats are in hundredths.
Level(arg) ==
  CASE "int" \in DOMAIN arg /\ arg.int \in 0..100 -> arg.int
    [] "float" \in DOMAIN arg /\ arg.float \in 0..100 -> arg.float
    [] "float" \in DOMAIN arg /\ arg.float \in 101..10000 -> arg.float \div 100
    [] OTHER -> -1

\* set_loop_status: the names of the three modes.
LoopMode == [none |-> "None", track |-> "Track", one |-> "Track", single |-> "Track",
             playlist |-> "Playlist", all |-> "Playlist"]

\* media_seek takes a u64 and casts it to an i64.
AsI64(n) == IF n > MaxI64 THEN n - 2 * (MaxI64 + 1) ELSE n
FitsI64(n) == n \in -MaxI64 - 1..MaxI64

ValidMedia(r) ==
  CASE r.action = "media_volume" -> Level(r.arg) # -1
    [] r.action = "media_loop" -> r.arg.mode \in DOMAIN LoopMode
    [] OTHER -> r.typed

\* handle_action_request up to the player it is for.
MediaTake(r) ==
  /\ MediaAt("idle") /\ mediaServed < MaxMediaReplies
  /\ LET p == Resolved(r.player)
         work == [at |-> r.action, r |-> r, player |-> p, target |-> 0, track |-> Unknown,
                  read |-> FALSE, events |-> playerEvents, since |-> mediaNow] IN
     CASE r.action = "media_list_players" ->
            Kept(work, [ok |-> TRUE, players |-> Listed]) /\ UNCHANGED mediaWork
       [] r.action # "media_list_players" /\ ValidMedia(r) /\ p # NoPlayer -> MediaGoto(work)
       [] OTHER -> Kept(work, MediaRefused) /\ UNCHANGED mediaWork
  /\ UNCHANGED <<mediaWorld, posCache, metaCache>>

Target == mediaWork.player
Present == Target \in OnBus
CanDo(prop) == Present /\ prop \notin Kind(Target).cannot

-----------------------------------------------------------------------------
(* Transport and settings: a capability, and one call. *)
Capability == [media_play |-> "CanPlay", media_pause |-> "CanPause", media_next |-> "CanGoNext",
               media_prev |-> "CanGoPrevious", media_stop |-> "-"]

\* What a player makes of a method.
Called(action, p) ==
  CASE action = "media_play" -> [p EXCEPT !.playing = TRUE]
    [] action \in {"media_pause", "media_stop"} -> [p EXCEPT !.playing = FALSE]
    [] action \in {"media_next", "media_prev"} -> [p EXCEPT !.track = @ + 1, !.pos = 0]

MediaControl ==
  /\ mediaWork.at \in DOMAIN Capability
  /\ IF CanDo(Capability[mediaWork.at])
       THEN LET next == Called(mediaWork.at, players[Target]) IN
            /\ players' = [players EXCEPT ![Target] = next]
            /\ Signalled(Target, [playing |-> next.playing])
            /\ interrupted' = IF next = players[Target] THEN interrupted ELSE interrupted \cup {Target}
            /\ MediaReply([ok |-> TRUE, reached |-> Target])
       ELSE MediaReply(MediaRefused) /\ UNCHANGED <<players, signals, interrupted>>
  /\ UNCHANGED <<mediaNow, allowed, defaultPlayer, watchers, posCache, metaCache, playerEvents>>

\* media_volume, media_shuffle, media_loop: no signal the watcher looks at.
MediaSet ==
  /\ mediaWork.at \in {"media_volume", "media_shuffle", "media_loop"}
  /\ LET arg == mediaWork.r.arg IN
     IF CanDo("CanControl")
       THEN /\ players' = CASE MediaAt("media_volume") -> [players EXCEPT ![Target].volume = Level(arg)]
                            [] MediaAt("media_loop") -> [players EXCEPT ![Target].loop = LoopMode[arg.mode]]
                            [] OTHER -> players
            /\ MediaReply([ok |-> TRUE, reached |-> Target])
       ELSE MediaReply(MediaRefused) /\ UNCHANGED players
  /\ UNCHANGED <<mediaNow, allowed, defaultPlayer, watchers, signals, interrupted, posCache, metaCache,
                 playerEvents>>

\* media_play_pause: the player turns, but shows it only some reads later.
Turn ==
  /\ MediaAt("media_play_pause")
  /\ IF CanDo("CanPause")
       THEN /\ players' = [players EXCEPT ![Target].playing = ~@, ![Target].stale = Kind(Target).lag]
            /\ Signalled(Target, [playing |-> ~players[Target].playing])
            /\ interrupted' = interrupted \cup {Target}
            /\ MediaGoto([mediaWork EXCEPT !.at = "poll"])
       ELSE MediaReply(MediaRefused) /\ UNCHANGED <<players, signals, interrupted>>
  /\ UNCHANGED <<mediaNow, allowed, defaultPlayer, watchers, posCache, metaCache, playerEvents>>

\* One read, and up to three more until one differs from the first; what
\* cannot be read counts as paused. `target` counts the reads.
\* Mutant: the first read is taken at its word.
Polls_One == 1
Polls == 4
Shown(p) == IF players[p].stale > 0 THEN ~players[p].playing ELSE players[p].playing
Poll ==
  /\ MediaAt("poll")
  /\ LET first == mediaWork.target = 0
         status == IF Present THEN Shown(Target) ELSE IF first THEN FALSE ELSE mediaWork.read
         n == mediaWork.target + 1 IN
     IF n < Polls /\ (first \/ status = mediaWork.read)
       THEN MediaGoto([mediaWork EXCEPT !.target = n, !.read = status])
       ELSE MediaReply([ok |-> TRUE, reached |-> Target, turned |-> status,
                        playing |-> players[Target].playing])
  /\ players' = [players EXCEPT ![Target].stale = IF @ > 0 THEN @ - 1 ELSE 0]
  /\ UNCHANGED <<mediaNow, allowed, defaultPlayer, watchers, signals, interrupted, posCache, metaCache,
                 playerEvents>>

-----------------------------------------------------------------------------
(* Seeking. *)
Position(p) == IF Kind(p).reports THEN players[p].pos ELSE 0

SeekPast == MediaReply(MediaRefused)

\* media_seek: the argument; media_seek_relative: from where the player is,
\* never before the start.
Aim ==
  /\ mediaWork.at \in {"media_seek", "media_seek_relative"}
  /\ LET r == mediaWork.r
         aim == IF r.action = "media_seek" THEN AsI64(r.arg) ELSE Position(Target) + r.arg
         target == IF r.action = "media_seek_relative" /\ aim < 0 THEN 0 ELSE aim IN
     IF FitsI64(aim) /\ (r.action = "media_seek_relative" => Present)
       THEN MediaGoto([mediaWork EXCEPT !.at = "track", !.target = target])
       ELSE SeekPast
  /\ UNCHANGED <<mediaWorld, posCache, metaCache>>

\* The track SetPosition is for, if the player names one. Without: Seek.
TrackOf(p) == IF Kind(p).tracks THEN players[p].track ELSE Unknown
SeekTrack ==
  /\ MediaAt("track")
  /\ CASE ~CanDo("CanSeek") -> SeekPast
       [] CanDo("CanSeek") /\ TrackOf(Target) # Unknown ->
            MediaGoto([mediaWork EXCEPT !.at = "set", !.track = TrackOf(Target)])
       [] OTHER -> MediaGoto([mediaWork EXCEPT !.at = "where"])
  /\ UNCHANGED <<mediaWorld, posCache, metaCache>>

SoughtTo(pos) ==
  /\ players' = [players EXCEPT ![Target].pos = pos] /\ Signalled(Target, [pos |-> pos])
  /\ Overheard(Target)

\* A player ignores a SetPosition before the start or for another track.
SetPosition ==
  /\ MediaAt("set")
  /\ CASE ~Present -> SeekPast /\ UNCHANGED <<players, signals, interrupted>>
       [] Present /\ ~Kind(Target).setpos ->
            MediaGoto([mediaWork EXCEPT !.at = "where"]) /\ UNCHANGED <<players, signals, interrupted>>
       [] OTHER ->
            LET heard == mediaWork.track = players[Target].track /\ mediaWork.target >= 0 IN
            /\ IF heard THEN SoughtTo(mediaWork.target) ELSE UNCHANGED <<players, signals, interrupted>>
            /\ MediaReply([ok |-> TRUE, reached |-> Target, position |-> mediaWork.target,
                           landed |-> IF heard THEN mediaWork.target ELSE players[Target].pos])
  /\ UNCHANGED <<mediaNow, allowed, defaultPlayer, watchers, posCache, metaCache, playerEvents>>

\* Seek takes an offset: from the position read before.
SeekWhere ==
  /\ MediaAt("where")
  /\ IF Present
       THEN MediaGoto([mediaWork EXCEPT !.at = "offset", !.track = mediaWork.target - Position(Target)])
       ELSE SeekPast
  /\ UNCHANGED <<mediaWorld, posCache, metaCache>>

SeekOffset ==
  /\ MediaAt("offset")
  /\ LET to == players[Target].pos + mediaWork.track landed == IF to < 0 THEN 0 ELSE to IN
     IF Present
       THEN /\ SoughtTo(landed)
            /\ MediaReply([ok |-> TRUE, reached |-> Target, position |-> mediaWork.target, landed |-> landed])
       ELSE SeekPast /\ UNCHANGED <<players, signals, interrupted>>
  /\ UNCHANGED <<mediaNow, allowed, defaultPlayer, watchers, posCache, metaCache, playerEvents>>

-----------------------------------------------------------------------------
(* media_status *)
\* merge_metadata_cached: what the player does not tell now is what it told last.
\* Mutant: what is known already wins.
Merged_CachedFirst(p, fresh) ==
  [f \in Fields |-> IF metaCache[p][f] # Unknown THEN metaCache[p][f] ELSE fresh[f]]
Merged(p, fresh) == [f \in Fields |-> IF fresh[f] # Unknown THEN fresh[f] ELSE metaCache[p][f]]

\* extrapolate_position: for a player that plays and tells position 0, on from
\* the cached position, if that is not too old.
\* Mutant: the age is not looked at, nor when the position was noted.
Extrapolated_FromZero(p, raw, playing) ==
  IF playing /\ raw = 0 /\ Cached(p).pos > 0 THEN Cached(p).pos + mediaNow * Cached(p).rate ELSE raw
Extrapolated(p, raw, playing) ==
  LET c == Cached(p) IN
  IF playing /\ raw = 0 /\ c.pos > 0 /\ mediaNow - c.at <= MaxAge
    THEN c.pos + (mediaNow - c.at) * c.rate ELSE raw

\* parse_metadata: what the player tells of its track, which may be sparse.
Told(p, given) == [f \in Fields |-> IF f \in given THEN players[p].track ELSE Unknown]

Status(given) ==
  /\ MediaAt("media_status")
  /\ LET p == players[Target] IN
     IF Present
       THEN /\ mediaWork' = [at |-> "answer", r |-> mediaWork.r, player |-> Target, playing |-> p.playing,
                             raw |-> Position(Target), meta |-> Merged(Target, Told(Target, given)),
                             track |-> p.track,
                             given |-> given, rate |-> p.rate,
                             volume |-> p.volume, loop |-> p.loop,
                             events |-> mediaWork.events, since |-> mediaWork.since]
            /\ metaCache' = [metaCache EXCEPT ![Target] = Merged(Target, Told(Target, given))]
            /\ NoReply /\ UNCHANGED mediaServed
       ELSE MediaReply(MediaRefused) /\ UNCHANGED metaCache
  /\ UNCHANGED <<mediaWorld, posCache>>

StatusAnswer ==
  /\ MediaAt("answer")
  /\ LET w == mediaWork position == Extrapolated(Target, w.raw, w.playing) IN
     /\ Stored(Target, [pos |-> IF w.playing /\ position > 0 THEN position ELSE w.raw,
                        rate |-> w.rate, at |-> mediaNow])
     /\ interrupted' = IF signals[Target] # <<>> THEN interrupted \cup {Target} ELSE interrupted
     /\ MediaReply([ok |-> TRUE, reached |-> Target, shown |-> position, meta |-> w.meta,
                    volume |-> w.volume, loop |-> w.loop,
                    settled |-> Target \notin interrupted',
                    ahead |-> Target \notin interrupted' /\ position > players[Target].pos])
  /\ UNCHANGED <<mediaNow, players, allowed, defaultPlayer, watchers, signals, metaCache, playerEvents>>

MediaNext ==
  \/ Tick \/ Scan
  \/ \E p \in Names :
       \/ \E pos \in SeekTargets : UserSeek(p, pos)
       \/ UserRate(p) \/ UserPause(p) \/ NextTrack(p) \/ Vanish(p) \/ Note(p)
  \/ \E r \in MediaRequests : MediaTake(r)
  \/ MediaControl \/ MediaSet \/ Turn \/ Poll \/ Aim \/ SeekTrack \/ SetPosition \/ SeekWhere \/ SeekOffset
  \/ Status(Fields) \/ Status({"title"})
  \/ StatusAnswer

MediaSpec == MediaInit /\ [][MediaNext]_mediaVars

-----------------------------------------------------------------------------
\* A seek needs the position, or a track that the player seeks in.
Seekable(p) == Kind(p).reports \/ (Kind(p).setpos /\ Kind(p).tracks)

(* What a request reaches is an allowed player, and the one it names. A    *)
(* seek lands where the reply says, with at most the time it took on top,  *)
(* and a turned player is as the reply says, if nobody else touches the    *)
(* player meanwhile. A position that is shown is not ahead of the player,  *)
(* and no shown field is another track's, if the player has stayed on one  *)
(* track and its signals have come before the request.                     *)
MediaTellsTheTruth ==
  \A i \in DOMAIN mediaReply :
    LET w == mediaReply[i].work r == w.r reply == mediaReply[i].reply IN
    reply.ok /\ "reached" \in DOMAIN reply =>
      /\ IsAllowed(reply.reached) /\ r.player \in {NoPlayer, reply.reached}
      /\ /\ "landed" \in DOMAIN reply /\ mediaReply[i].calm /\ r.arg <= MaxI64
         /\ Seekable(reply.reached)
         => reply.landed - reply.position \in 0..2 * mediaReply[i].took
      /\ "turned" \in DOMAIN reply /\ mediaReply[i].calm /\ Kind(reply.reached).lag < 4
           => reply.turned = reply.playing
      /\ "shown" \in DOMAIN reply =>
           /\ ~reply.ahead
           /\ \A f \in Fields : /\ f \in w.given => reply.meta[f] = w.track
                                /\ reply.settled => reply.meta[f] \in {Unknown, w.track}
=============================================================================
