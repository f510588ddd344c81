------------------------------- MODULE Listen --------------------------------
(***************************************************************************)
(* The listen path of the stt plugin: audio chunks addressed to the plugin *)
(* fill the buffer of their stream, stt_listen_stop transcribes it with    *)
(* the local engine and publishes the text. The plugin handles one frame   *)
(* at a time; while a handler waits for the kernel, every frame that is    *)
(* not the awaited one is discarded.                                       *)
(***************************************************************************)
EXTENDS Integers, Sequences, SequencesExt, FiniteSets

CONSTANTS
  ListenFrames,      \* frames callers and microphones send
  ModelDirs,         \* what the model directory may hold: a family and its files
  MaxListenFrames,   \* bound: frames
  MaxListenBacklog,  \* bound: frames on their way to the plugin
  MaxListenOthers,   \* bound: frames that belong to no stream
  MaxListenCrashes   \* bound: crashes

\* Byte and channel counts are natural numbers; a stream is started by its id.
ASSUME ListenAssumption ==
  \A f \in ListenFrames :
    /\ f.kind \in {"start", "chunk"} => f.rate \in Nat /\ f.channels \in Nat
    /\ f.kind = "chunk" => f.bytes \in Nat
    /\ f.kind = "transcribe" /\ f.format = "pcm" => f.bytes \in Nat /\ f.channels \in Nat
    /\ f.kind = "transcribe" /\ f.format = "wav" =>
         /\ f.channels \in Nat
         /\ DOMAIN f.chunks = 1..Len(f.chunks) /\ Len(f.chunks) \in Nat
         /\ \A i \in DOMAIN f.chunks : f.chunks[i].bytes \in Nat

VARIABLES
  listenFrames,   \* history: every frame sent, in order
  listenNext,     \* the first frame the plugin has not received
  listenWait,     \* what the handler waits for
  streams,        \* listen::STREAMS, by stream id
  engine,         \* sherpa::ENGINE: none, ready or failed
  model,          \* what the model directory holds
  transcripts,    \* history: the texts published, as the chunks they hold
  missed,         \* history: frames discarded while a handler waited
  listenCrashes   \* crashes so far

listenVars == <<listenFrames, listenNext, listenWait, streams, engine, model, transcripts,
                missed, listenCrashes>>

ListenIds == {f.id : f \in {g \in ListenFrames : g.kind = "start"}}
NoStream == [rate |-> 0]
MAX_AUDIO_LEN == 25
Active(id) == id \in ListenIds /\ streams[id] # NoStream

ListenInit ==
  /\ listenFrames = <<>> /\ listenNext = 1
  /\ listenWait = [pc |-> "idle"]
  /\ streams = [id \in ListenIds |-> NoStream]
  /\ engine = "none" /\ model \in ModelDirs
  /\ transcripts = {} /\ missed = {}
  /\ listenCrashes = 0

\* A frame is sent; frames arrive in order.
OfNoStream == {i \in DOMAIN listenFrames : listenFrames[i].kind \in {"transcribe", "models"}}
FrameSent(f) ==
  /\ Len(listenFrames) < MaxListenFrames
  /\ f.kind \in {"transcribe", "models"} => Cardinality(OfNoStream) < MaxListenOthers
  /\ Len(listenFrames) < listenNext - 1 + MaxListenBacklog
  /\ listenFrames' = Append(listenFrames, f)
  /\ UNCHANGED <<listenNext, listenWait, streams, engine, model, transcripts, missed,
                 listenCrashes>>

Receives(kind) ==
  /\ listenNext <= Len(listenFrames)
  /\ listenFrames[listenNext].kind = kind
  /\ listenNext' = listenNext + 1

Frame == listenFrames[listenNext]

\* stt_listen_start: refused without a rate or channels, or for an id in use.
ValidListenStart(f) == f.rate > 0 /\ f.channels > 0

ListenStart ==
  /\ listenWait.pc = "idle" /\ Receives("start")
  /\ streams' = IF ~ValidListenStart(Frame) \/ Active(Frame.id) THEN streams
                ELSE [streams EXCEPT ![Frame.id] =
                        [rate |-> Frame.rate, start |-> listenNext, pcm |-> <<>>]]
  /\ UNCHANGED <<listenFrames, listenWait, engine, model, transcripts, missed, listenCrashes>>

\* A chunk whose samples a stream takes: 16-bit PCM at the rate agreed on.
\* Mutant: the rate is not compared.
Usable_AnyRate(f, rate) == f.pcm /\ f.bytes % 2 = 0
Usable(f, rate) == f.pcm /\ f.bytes % 2 = 0 /\ f.rate = rate

\* The mono samples of a chunk; an incomplete last group of channels is dropped.
MonoSamples(f) == IF f.channels <= 1 THEN f.bytes \div 2 ELSE (f.bytes \div 2) \div f.channels

\* The buffer of a stream with one more chunk.
\* Mutant: the chunk goes to the front.
Buffered_InFront(pcm, n) == <<n>> \o pcm
Buffered(pcm, n) == Append(pcm, n)

ListenPush ==
  /\ listenWait.pc = "idle" /\ Receives("chunk")
  /\ streams' = IF Active(Frame.id) /\ Usable(Frame, streams[Frame.id].rate) /\ MonoSamples(Frame) > 0
                  THEN [streams EXCEPT ![Frame.id].pcm = Buffered(@, listenNext)]
                  ELSE streams
  /\ UNCHANGED <<listenFrames, listenWait, engine, model, transcripts, missed, listenCrashes>>

\* The files a model of each family is made of.
TransducerFiles == {"encoder", "decoder", "joiner", "tokens"}
WhisperFiles == {"encoder", "decoder", "tokens"}
FamilyFiles == [transducer |-> TransducerFiles, whisper |-> WhisperFiles]

\* The directory holds a model of a known family with all its files.
EngineLoads == /\ model.family \in DOMAIN FamilyFiles
               /\ FamilyFiles[model.family] \subseteq model.files

\* The engine is loaded by the first request that needs it; what came of it is
\* kept for the life of the process, a failure too.
EngineAfter == IF engine # "none" THEN engine ELSE IF EngineLoads THEN "ready" ELSE "failed"

\* The stream is taken out of the map before anything can fail.
\* Mutant: it is read and left there.
Taken_Keeps(id) == streams
Taken(id) == [streams EXCEPT ![id] = NoStream]

\* stt_listen_stop up to the publishing of the text.
ListenStop ==
  /\ listenWait.pc = "idle" /\ Receives("stop")
  /\ streams' = Taken(Frame.id)
  /\ IF ~Active(Frame.id) \/ streams[Frame.id].pcm = <<>>
       THEN UNCHANGED <<engine, listenWait, transcripts>>
       ELSE /\ engine' = EngineAfter
            /\ IF engine' = "failed" THEN UNCHANGED <<listenWait, transcripts>>
               ELSE /\ transcripts' = transcripts \cup
                         {[id |-> Frame.id, rate |-> streams[Frame.id].rate,
                           start |-> streams[Frame.id].start, stop |-> listenNext,
                           chunks |-> streams[Frame.id].pcm]}
                    /\ listenWait' = [pc |-> "publish"]
  /\ UNCHANGED <<listenFrames, model, missed, listenCrashes>>

\* A 16-bit PCM wav: the format chunk comes first, the first data chunk counts,
\* and only those of its bytes the file has.
NoAudio == [bytes |-> 0, channels |-> 0, rate |-> 0]
FirstData(w) == CHOOSE i \in DOMAIN w.chunks :
                  w.chunks[i].data /\ \A j \in 1..i-1 : ~w.chunks[j].data
ParsedWav(w) ==
  IF /\ w.fmt = "pcm16" /\ w.channels > 0
     /\ \E i \in DOMAIN w.chunks : w.chunks[i].data
     /\ w.chunks[FirstData(w)].bytes % 2 = 0
    THEN [bytes |-> w.chunks[FirstData(w)].bytes, channels |-> w.channels, rate |-> w.rate]
    ELSE NoAudio

\* decode_samples: raw samples need a rate and a channel count beside them.
DecodedSamples(f) ==
  IF f.format = "wav" THEN ParsedWav(f)
  ELSE IF ValidListenStart(f) /\ f.bytes % 2 = 0
    THEN [bytes |-> f.bytes, channels |-> f.channels, rate |-> f.rate]
    ELSE NoAudio

\* The formats of the two providers, and what the cloud one needs beside.
ValidTranscribe(f) ==
  /\ f.size > 0 /\ f.size <= MAX_AUDIO_LEN
  /\ CASE f.provider = "sherpa" -> f.format \in {"wav", "pcm"}
       [] f.provider = "openai" -> f.format \in {"wav", "mp3", "ogg"} /\ f.keyEnv # ""
       [] OTHER -> FALSE

\* stt_transcribe: in the process, or by the cloud while the handler waits for
\* the vault and the network; and stt_models, which may load the engine.
ListenTranscribe ==
  /\ listenWait.pc = "idle" /\ Receives("transcribe")
  /\ IF ~ValidTranscribe(Frame) THEN UNCHANGED <<engine, listenWait, transcripts>>
     ELSE IF Frame.provider = "openai"
       THEN listenWait' = [pc |-> "cloud"] /\ UNCHANGED <<engine, transcripts>>
     ELSE IF DecodedSamples(Frame) = NoAudio THEN UNCHANGED <<engine, listenWait, transcripts>>
     ELSE /\ engine' = EngineAfter
          /\ transcripts' = IF engine' = "failed" THEN transcripts
               ELSE transcripts \cup {[upload |-> listenNext,
                      samples |-> MonoSamples(DecodedSamples(Frame))]}
          /\ UNCHANGED listenWait
  /\ UNCHANGED <<listenFrames, streams, model, missed, listenCrashes>>

ListenModels ==
  /\ listenWait.pc = "idle" /\ Receives("models")
  /\ engine' = IF Frame.provider = "sherpa" THEN EngineAfter ELSE engine
  /\ UNCHANGED <<listenFrames, listenWait, streams, model, transcripts, missed, listenCrashes>>

\* A frame arrives that is not the awaited answer.
ListenMisses ==
  /\ listenWait.pc # "idle"
  /\ listenNext <= Len(listenFrames)
  /\ listenNext' = listenNext + 1
  /\ missed' = missed \cup {listenNext}
  /\ UNCHANGED <<listenFrames, listenWait, streams, engine, model, transcripts, listenCrashes>>

\* The awaited answer, or the end of its time: a publish without acknowledgement
\* is an error for the caller, though the event may be out.
WaitEnds ==
  /\ listenWait.pc # "idle"
  /\ listenWait' = [pc |-> "idle"]
  /\ UNCHANGED <<listenFrames, listenNext, streams, engine, model, transcripts, missed,
                 listenCrashes>>

\* The operator puts the model in place, or takes it away.
ModelChanges ==
  /\ model' \in ModelDirs \ {model}
  /\ UNCHANGED <<listenFrames, listenNext, listenWait, streams, engine, transcripts, missed,
                 listenCrashes>>

\* The process ends; the frames on their way to it are gone.
ListenCrash ==
  /\ listenCrashes < MaxListenCrashes
  /\ listenCrashes' = listenCrashes + 1
  /\ listenNext' = Len(listenFrames) + 1
  /\ missed' = missed \cup listenNext..Len(listenFrames)
  /\ streams' = [id \in ListenIds |-> NoStream]
  /\ engine' = "none"
  /\ listenWait' = [pc |-> "idle"]
  /\ UNCHANGED <<listenFrames, model, transcripts>>

ListenNext ==
  \/ \E f \in ListenFrames : FrameSent(f)
  \/ ListenStart \/ ListenPush \/ ListenStop \/ ListenTranscribe \/ ListenModels
  \/ ListenMisses \/ WaitEnds \/ ModelChanges \/ ListenCrash

ListenSpec == ListenInit /\ [][ListenNext]_listenVars

-----------------------------------------------------------------------------
(* A stream's text covers what was said between its start and its stop:    *)
(* every chunk of the stream with usable audio, in order and no other, but *)
(* for those that came while a handler waited; no chunk is in two texts;   *)
(* and the text of an upload covers all the sample groups its data holds.  *)
UsableAudio(t, n) ==
  /\ listenFrames[n].kind = "chunk" /\ listenFrames[n].id = t.id
  /\ listenFrames[n].pcm /\ listenFrames[n].bytes % 2 = 0 /\ listenFrames[n].rate = t.rate
  /\ MonoSamples(listenFrames[n]) > 0
  /\ n \notin missed

Streamed == {t \in transcripts : "stop" \in DOMAIN t}
AudioBytes(f) ==
  IF f.format = "wav"
    THEN {f.chunks[i].bytes : i \in {k \in DOMAIN f.chunks :
            f.chunks[k].data /\ \A j \in 1..k-1 : ~f.chunks[j].data}}
    ELSE {f.bytes}

TranscriptsAreComplete ==
  /\ \A t \in transcripts \ Streamed : LET f == listenFrames[t.upload] IN
       \E n \in AudioBytes(f) : n - 2 * f.channels * t.samples \in 0..2 * f.channels - 1
  /\ \A t \in Streamed :
       /\ \A i, j \in DOMAIN t.chunks : i < j => t.chunks[i] < t.chunks[j]
       /\ ToSet(t.chunks) = {n \in t.start + 1..t.stop - 1 : UsableAudio(t, n)}
  /\ \A t, u \in Streamed : t # u => ToSet(t.chunks) \cap ToSet(u.chunks) = {}
=============================================================================
