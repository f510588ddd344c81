------------------------------- MODULE Speak --------------------------------
(***************************************************************************)
(* The local side of the tts plugin: the engine it loads once, the voices  *)
(* it lists and accepts, and tts_speak, which synthesizes a text, encodes  *)
(* it in Opus frames of 20 ms and sends them one by one to the target.     *)
(***************************************************************************)
EXTENDS Integers, Sequences, SequencesExt, FiniteSets

CONSTANTS
  SpeakRequests,  \* requests for speech: action, voice, rate, format, target, stream
  VoiceModels,    \* what the model directory may hold: family, files, speakers, rate
  SampleCounts,   \* lengths of what a synthesis gives, in samples
  MaxSpeaks,      \* bound: requests
  MaxSpeakFaults  \* bound: chunks that cannot be sent

\* Samples are counted, and so are the speakers of a model.
ASSUME SpeakAssumption ==
  SampleCounts \subseteq Nat /\ \A m \in VoiceModels : m.speakers \in Nat

VARIABLES
  voiceModel,    \* the model directory
  voiceEngine,   \* sherpa::ENGINE: none, ready or failed
  speaking,      \* the tts_speak being served: its packets and how many are out
  spokenWire,    \* history: the chunks the targets have received, in order
  speakReplies,  \* history: the replies, in the order of the requests
  speakFaults    \* chunks that could not be sent

speakVars == <<voiceModel, voiceEngine, speaking, spokenWire, speakReplies, speakFaults>>

Silent == [packets |-> 0]
SpeakRefusal == [ok |-> FALSE]

SpeakInit ==
  /\ voiceModel \in VoiceModels
  /\ voiceEngine = "none" /\ speaking = Silent
  /\ spokenWire = <<>> /\ speakReplies = <<>> /\ speakFaults = 0

-----------------------------------------------------------------------------
\* The files a model of each family is made of.
KokoroFiles == {"model", "voices", "tokens", "espeak-ng-data"}
PiperFiles == {"model", "tokens", "espeak-ng-data"}
VoiceFiles == [kokoro |-> KokoroFiles, piper |-> PiperFiles]

VoiceModelLoads == /\ voiceModel.family \in DOMAIN VoiceFiles
                   /\ VoiceFiles[voiceModel.family] \subseteq voiceModel.files

\* Loaded by the first request that needs it; a failure stays as well.
VoiceEngineAfter ==
  IF voiceEngine # "none" THEN voiceEngine ELSE IF VoiceModelLoads THEN "ready" ELSE "failed"

\* Three of the 26 kokoro voices: the first, one in the middle, the last.
KokoroVoices == [af_heart |-> 0, am_adam |-> 8, ff_siwis |-> 25]
NoSid == -1

\* A voice is a name or "sid:N"; a piper model of one speaker takes any name.
NamedSid(name) ==
  IF voiceModel.family = "kokoro" /\ name \in DOMAIN KokoroVoices THEN KokoroVoices[name]
  ELSE IF voiceModel.family = "piper" /\ voiceModel.speakers <= 1 THEN 0
  ELSE NoSid
AskedSid(voice) == IF "sid" \in DOMAIN voice THEN voice.sid ELSE NamedSid(voice.name)

\* Mutant: the index is compared with the number of speakers as if it began at 1.
ResolveSid_FromOne(voice) ==
  IF AskedSid(voice) \in 1..voiceModel.speakers THEN AskedSid(voice) ELSE NoSid
ResolveSid(voice) ==
  IF AskedSid(voice) \in 0..voiceModel.speakers - 1 THEN AskedSid(voice) ELSE NoSid

\* tts_voices: the names within the model, and every index.
ListedVoices ==
  (IF voiceModel.family = "kokoro"
     THEN {[name |-> n] : n \in {m \in DOMAIN KokoroVoices : KokoroVoices[m] < voiceModel.speakers}}
     ELSE {})
  \cup {[sid |-> k] : k \in 0..voiceModel.speakers - 1}

\* What tts_speak needs; the local provider only, for a target.
ValidSpeak(r) == r.provider = "sherpa" /\ r.text \in 1..4 /\ r.target # ""
LocalFormats == {"wav", "pcm", "mp3"}

-----------------------------------------------------------------------------
\* The rate of the stream: the one asked for, or the model's. Nothing resamples.
WireRate(r) == IF r.rate = 0 THEN voiceModel.rate ELSE r.rate
OpusRates == {8000, 12000, 16000, 24000, 48000}
FrameSamples(rate) == (rate \div 1000) * 20

\* One packet per full frame, and one for what is left, padded with silence.
\* Mutant: what is left of the last frame is dropped.
PacketCount_NoTail(samples, rate) == samples \div FrameSamples(rate)
PacketCount(samples, rate) ==
  samples \div FrameSamples(rate) + (IF samples % FrameSamples(rate) = 0 THEN 0 ELSE 1)

SpeakAnswered(reply) == speakReplies' = Append(speakReplies, reply)
Requested == Len(speakReplies) < MaxSpeaks /\ speaking = Silent

\* tts_speak up to its first chunk; an empty synthesis sends none.
Speak(r, samples) ==
  /\ Requested /\ r.action = "tts_speak"
  /\ voiceEngine' = IF ValidSpeak(r) THEN VoiceEngineAfter ELSE voiceEngine
  /\ IF ~ValidSpeak(r) \/ voiceEngine' = "failed" \/ ResolveSid(r.voice) = NoSid
        \/ WireRate(r) \notin OpusRates
       THEN SpeakAnswered(SpeakRefusal) /\ UNCHANGED speaking
       ELSE LET n == PacketCount(samples, WireRate(r)) IN
            IF n = 0 THEN SpeakAnswered([ok |-> TRUE, packets |-> 0, samples |-> samples,
                                    rate |-> WireRate(r)]) /\ UNCHANGED speaking
            ELSE /\ speaking' = [packets |-> n, sent |-> 0, samples |-> samples,
                                 rate |-> WireRate(r), to |-> r.target, stream |-> r.stream]
                 /\ UNCHANGED speakReplies
  /\ UNCHANGED <<voiceModel, spokenWire, speakFaults>>

\* The last chunk is marked, and then the reply is sent.
EndMark(k) == k = speaking.packets

SpeakChunk ==
  /\ speaking # Silent
  /\ LET k == speaking.sent + 1 IN
     /\ spokenWire' = Append(spokenWire, [utterance |-> Len(speakReplies) + 1, nr |-> k,
                                          to |-> speaking.to, stream |-> speaking.stream,
                                          rate |-> speaking.rate, end |-> EndMark(k)])
     /\ IF k < speaking.packets THEN speaking' = [speaking EXCEPT !.sent = k] /\ UNCHANGED speakReplies
        ELSE /\ speaking' = Silent
             /\ SpeakAnswered([ok |-> TRUE, packets |-> speaking.packets, samples |-> speaking.samples,
                          rate |-> speaking.rate])
  /\ UNCHANGED <<voiceModel, voiceEngine, speakFaults>>

\* A chunk cannot be sent: the rest is not, and the stream stays open.
SpeakChunkFails ==
  /\ speaking # Silent /\ speakFaults < MaxSpeakFaults
  /\ speakFaults' = speakFaults + 1
  /\ speaking' = Silent /\ SpeakAnswered(SpeakRefusal)
  /\ UNCHANGED <<voiceModel, voiceEngine, spokenWire>>

\* tts_synthesize by the local engine: the audio is in the reply.
LocalSynthesize(r, samples) ==
  /\ Requested /\ r.action = "tts_synthesize"
  /\ voiceEngine' = IF r.format \in LocalFormats THEN VoiceEngineAfter ELSE voiceEngine
  /\ SpeakAnswered(IF r.format \in LocalFormats /\ voiceEngine' = "ready" /\ ResolveSid(r.voice) # NoSid
                THEN [ok |-> TRUE, packets |-> 0, samples |-> samples, rate |-> voiceModel.rate]
                ELSE SpeakRefusal)
  /\ UNCHANGED <<voiceModel, speaking, spokenWire, speakFaults>>

\* tts_voices for the local provider.
LocalVoices(r) ==
  /\ Requested /\ r.action = "tts_voices"
  /\ voiceEngine' = VoiceEngineAfter
  /\ SpeakAnswered(IF voiceEngine' = "ready" THEN [ok |-> TRUE, voices |-> ListedVoices] ELSE SpeakRefusal)
  /\ UNCHANGED <<voiceModel, speaking, spokenWire, speakFaults>>

SpeakNext ==
  \/ \E r \in SpeakRequests :
       \/ \E samples \in SampleCounts : Speak(r, samples) \/ LocalSynthesize(r, samples)
       \/ LocalVoices(r)
  \/ SpeakChunk \/ SpeakChunkFails

SpeakSpec == SpeakInit /\ [][SpeakNext]_speakVars

-----------------------------------------------------------------------------
(* A tts_speak that succeeds has put on the wire, in order and unmixed with *)
(* another's, the chunks it reports, the last and only the last of them     *)
(* marked; they hold all its samples and less than a frame of silence. One  *)
(* that fails has marked none, and what sends nothing is not on the wire.   *)
(* And a voice that is listed is accepted.                                  *)
OnWire(u) == {i \in DOMAIN spokenWire : spokenWire[i].utterance = u}
Spoken(u) == speakReplies[u].ok /\ "packets" \in DOMAIN speakReplies[u]

SpeechIsWhole ==
  /\ \A u \in DOMAIN speakReplies : LET reply == speakReplies[u] IN
       /\ Spoken(u) =>
            \E from \in 0..Len(spokenWire) :
              /\ OnWire(u) = from + 1..from + reply.packets
              /\ \A k \in 1..reply.packets : LET chunk == spokenWire[from + k] IN
                   chunk.nr = k /\ chunk.rate = reply.rate /\ chunk.end = (k = reply.packets)
       /\ Spoken(u) /\ reply.packets > 0 =>
            LET frame == FrameSamples(reply.rate) IN
            reply.samples \in (reply.packets - 1) * frame + 1..reply.packets * frame
       /\ ~Spoken(u) => \A i \in OnWire(u) : ~spokenWire[i].end
       /\ reply.ok /\ "voices" \in DOMAIN reply => \A v \in reply.voices : ResolveSid(v) # NoSid
  /\ \A i, j \in DOMAIN spokenWire : i < j => spokenWire[i].utterance <= spokenWire[j].utterance
=============================================================================
