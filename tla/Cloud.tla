------------------------------- MODULE Cloud --------------------------------
(***************************************************************************)
(* The plugins that serve a request through other plugins: web_search and  *)
(* the cloud providers of tts_synthesize. One request at a time, they look *)
(* the key up in the vault of the secrets plugin, fall back on their own   *)
(* environment, have the network plugin send one HTTP request, and parse   *)
(* its answer. While a call waits for its answer the SDK's send_action     *)
(* discards every other frame, requests included.                          *)
(***************************************************************************)
EXTENDS Integers, Sequences, SequencesExt, FiniteSets

CONSTANTS
  CloudRequests,    \* requests callers send
  AllowedKeyEnvs,   \* the operator's allowlist of key handles
  EnvKeys,          \* the handles with a value in the environment
  VaultKeys,        \* the values a handle has in the vault in its time; 0: none
  HttpAnswers,      \* answers of the network plugin: [status, body]; status 0: an error
  MaxCloudRequests, \* bound: requests
  MaxRotations      \* bound: changes of the vault

VARIABLES
  cloudSent,     \* history: the requests sent, by id
  cloudInbound,  \* frames on their way to the plugin
  cloudNow,      \* the request being served, the call awaited, the key in hand
  cloudCalls,    \* calls made: kind, request, key, endpoint, what was received and, as a
                 \* history, the call that it was the answer to (0: none)
  cloudReplies,  \* history: replies sent
  cloudMissed,   \* history: requests discarded while a call waited
  cloudVault,    \* the vault's value of the handle
  cloudTurns     \* rotations so far

cloudVars == <<cloudSent, cloudInbound, cloudNow, cloudCalls, cloudReplies, cloudMissed,
               cloudVault, cloudTurns>>

Idle == [pc |-> "idle"]
NothingYet == [status |-> -1]
NoKey == 0         \* keys of the vault are positive
FromEnv == -1

CloudInit ==
  /\ cloudSent = <<>> /\ cloudInbound = <<>>
  /\ cloudNow = Idle
  /\ cloudCalls = <<>> /\ cloudReplies = <<>> /\ cloudMissed = {}
  /\ cloudVault \in VaultKeys /\ cloudTurns = 0

-----------------------------------------------------------------------------
\* The environment: callers, the vault and its owner, the network plugin.
CloudSend(r) ==
  /\ Len(cloudSent) < MaxCloudRequests
  /\ cloudSent' = Append(cloudSent, r)
  /\ cloudInbound' = Append(cloudInbound, [kind |-> "request", id |-> Len(cloudSent) + 1])
  /\ UNCHANGED <<cloudNow, cloudCalls, cloudReplies, cloudMissed, cloudVault, cloudTurns>>

VaultRotates ==
  /\ cloudTurns < MaxRotations /\ cloudTurns' = cloudTurns + 1
  /\ cloudVault' \in VaultKeys \ {cloudVault}
  /\ UNCHANGED <<cloudSent, cloudInbound, cloudNow, cloudCalls, cloudReplies, cloudMissed>>

\* A call is answered once, in time or late, or never.
CallAnswered(n, answer) ==
  /\ ~cloudCalls[n].answered
  /\ cloudCalls' = [cloudCalls EXCEPT ![n].answered = TRUE]
  /\ cloudInbound' = Append(cloudInbound, [kind |-> "answer", call |-> n, answer |-> answer])
  /\ UNCHANGED <<cloudSent, cloudNow, cloudReplies, cloudMissed, cloudVault, cloudTurns>>

\* secret_get answers with the value, an empty one, or an error.
SecretsAnswer(n) ==
  /\ cloudCalls[n].kind = "secret"
  /\ \/ CallAnswered(n, [status |-> 200, key |-> cloudVault])
     \/ CallAnswered(n, [status |-> 0])

NetworkAnswer(n) ==
  /\ cloudCalls[n].kind = "http"
  /\ \E answer \in HttpAnswers : CallAnswered(n, answer)

-----------------------------------------------------------------------------
\* web_search: query lengths count in hundreds of characters.
MAX_QUERY == 4
ValidSearch(r) ==
  /\ r.query \in 1..MAX_QUERY
  /\ r.provider \in {"brave", "tavily"}
  /\ r.keyEnv # ""

\* tts_synthesize with a cloud provider: the text in thousands of characters.
MAX_TEXT == 4
SpeechFormats == [openai |-> {"mp3", "wav", "pcm", "opus", "aac", "flac"},
                  elevenlabs |-> {"mp3", "pcm", "ulaw"}]
ValidSpeech(r) ==
  /\ r.provider \in DOMAIN SpeechFormats
  /\ r.text \in 1..MAX_TEXT
  /\ r.voice # "" /\ (r.provider = "openai" => r.voice # "unknown")
  /\ r.keyEnv # ""
  /\ r.format \in SpeechFormats[r.provider]

ValidCloud(r) == IF r.action = "web_search" THEN ValidSearch(r) ELSE ValidSpeech(r)

\* Only handles the operator lists; none is listed by default.
KeyAllowed(handle) == handle \in AllowedKeyEnvs

\* Where a request goes: the caller's base_url, or the provider's own.
Endpoint(r) == IF r.baseUrl = "" THEN r.provider ELSE r.baseUrl

\* The key after the vault was asked: its value, or that of the environment.
\* Mutant: the environment is asked first.
KeyAfterVault_EnvFirst(answer, handle) ==
  IF handle \in EnvKeys THEN FromEnv
  ELSE IF answer.status = 200 /\ answer.key # NoKey THEN answer.key ELSE NoKey
KeyAfterVault(answer, handle) ==
  IF answer.status = 200 /\ answer.key # NoKey THEN answer.key
  ELSE IF handle \in EnvKeys THEN FromEnv ELSE NoKey

\* The answer is a success of the provider.
\* Mutant: the provider's status is not looked at.
Success_AnyStatus(answer) == answer.status # 0
Success(answer) == answer.status \in 200..299

\* The hits of a body; brave leaves the list out when it has no web results.
ParsedSearch(body) == IF body.kind = "json" THEN <<body.hits>> ELSE <<>>

\* Audio has no wrong form; its rate is known for the raw formats only.
ParsedSpeech(r) ==
  <<CASE r.format = "pcm" -> 24000 [] r.format = "ulaw" -> 8000 [] OTHER -> 0>>

ParsedCloud(r, answer) ==
  IF ~Success(answer) THEN <<>>
  ELSE IF r.action = "web_search" THEN ParsedSearch(answer.body) ELSE ParsedSpeech(r)

-----------------------------------------------------------------------------
CloudReplied(reply) == cloudReplies' = Append(cloudReplies, reply)
Refusal(id) == [id |-> id, result |-> <<>>, call |-> 0]

NewCall(kind, id, key) ==
  Append(cloudCalls, [kind |-> kind, id |-> id, key |-> key, at |-> Endpoint(cloudSent[id]),
                      handle |-> cloudSent[id].keyEnv, answered |-> FALSE, got |-> NothingYet, from |-> 0])

Awaiting(kind, id) == [pc |-> kind, id |-> id, call |-> Len(cloudCalls) + 1]

\* A request is received while nothing is served.
CloudAccept ==
  /\ cloudNow.pc = "idle" /\ cloudInbound # <<>>
  /\ cloudInbound' = Tail(cloudInbound)
  /\ IF Head(cloudInbound).kind # "request"
       THEN UNCHANGED <<cloudNow, cloudCalls, cloudReplies>>     \* a late answer
       ELSE LET id == Head(cloudInbound).id IN
            IF ValidCloud(cloudSent[id]) /\ KeyAllowed(cloudSent[id].keyEnv)
              THEN /\ cloudCalls' = NewCall("secret", id, NoKey)
                   /\ cloudNow' = Awaiting("secret", id)
                   /\ UNCHANGED cloudReplies
              ELSE CloudReplied(Refusal(id)) /\ UNCHANGED <<cloudNow, cloudCalls>>
  /\ UNCHANGED <<cloudSent, cloudMissed, cloudVault, cloudTurns>>

\* The frame is the answer to the call in hand.
\* Mutant: any answer of the plugin that was asked will do.
Awaited_ByPlugin == /\ cloudNow.pc # "idle" /\ cloudInbound # <<>>
                    /\ Head(cloudInbound).kind = "answer"
                    /\ cloudCalls[Head(cloudInbound).call].kind = cloudNow.pc
Awaited == /\ cloudNow.pc # "idle" /\ cloudInbound # <<>>
           /\ Head(cloudInbound).kind = "answer" /\ Head(cloudInbound).call = cloudNow.call

\* The key is known, or is not: the one HTTP request of this request is sent.
AfterSecret(answer, from) ==
  LET id == cloudNow.id
      key == KeyAfterVault(answer, cloudSent[id].keyEnv)
      heard == [cloudCalls EXCEPT ![cloudNow.call].got = answer,
                                  ![cloudNow.call].from = from] IN
  IF key = NoKey
    THEN /\ CloudReplied(Refusal(id)) /\ cloudNow' = Idle
         /\ cloudCalls' = heard
    ELSE /\ cloudCalls' = [NewCall("http", id, key) EXCEPT ![cloudNow.call] = heard[cloudNow.call]]
         /\ cloudNow' = Awaiting("http", id)
         /\ UNCHANGED cloudReplies

AfterHttp(answer, from) ==
  /\ cloudCalls' = [cloudCalls EXCEPT ![cloudNow.call].got = answer,
                                      ![cloudNow.call].from = from]
  /\ CloudReplied([id |-> cloudNow.id, call |-> cloudNow.call,
              result |-> ParsedCloud(cloudSent[cloudNow.id], answer)])
  /\ cloudNow' = Idle

CloudReceive ==
  /\ Awaited
  /\ cloudInbound' = Tail(cloudInbound)
  /\ LET frame == Head(cloudInbound)
     IN  IF cloudNow.pc = "secret" THEN AfterSecret(frame.answer, frame.call)
                                   ELSE AfterHttp(frame.answer, frame.call)
  /\ UNCHANGED <<cloudSent, cloudMissed, cloudVault, cloudTurns>>

\* No answer in time: the same as an answer that is an error.
CloudTimeout ==
  /\ cloudNow.pc # "idle"
  /\ IF cloudNow.pc = "secret" THEN AfterSecret([status |-> 0], 0)
                               ELSE AfterHttp([status |-> 0], 0)
  /\ UNCHANGED <<cloudSent, cloudInbound, cloudMissed, cloudVault, cloudTurns>>

\* Any other frame that arrives meanwhile.
CloudDiscard ==
  /\ cloudNow.pc # "idle" /\ cloudInbound # <<>> /\ ~Awaited
  /\ cloudInbound' = Tail(cloudInbound)
  /\ cloudMissed' = IF Head(cloudInbound).kind = "request"
                      THEN cloudMissed \cup {Head(cloudInbound).id} ELSE cloudMissed
  /\ UNCHANGED <<cloudSent, cloudNow, cloudCalls, cloudReplies, cloudVault, cloudTurns>>

CloudNext ==
  \/ \E r \in CloudRequests : CloudSend(r)
  \/ VaultRotates
  \/ \E n \in DOMAIN cloudCalls : SecretsAnswer(n) \/ NetworkAnswer(n)
  \/ CloudAccept \/ CloudReceive \/ CloudTimeout \/ CloudDiscard

CloudSpec == CloudInit /\ [][CloudNext]_cloudVars

-----------------------------------------------------------------------------
(* Whatever is late or lost: a result is made of the answer to the one HTTP *)
(* request sent for this very request, to its endpoint, with a key the      *)
(* operator lists, and of no other answer; the key is the one the vault     *)
(* answered to the call made for this request, whenever it answered one;    *)
(* and a request that was received is replied to once, unless it was        *)
(* discarded.                                                               *)
KeyIsRight(call) ==
  \E s \in 1..call-1 :
    /\ cloudCalls[s].kind = "secret" /\ cloudCalls[s].id = cloudCalls[call].id
    /\ IF cloudCalls[s].got.status = 200 /\ cloudCalls[s].got.key # NoKey
         THEN cloudCalls[call].key = cloudCalls[s].got.key /\ cloudCalls[s].from = s
         ELSE cloudCalls[call].key = FromEnv

CallsOf(id) == {n \in DOMAIN cloudCalls : cloudCalls[n].kind = "http" /\ cloudCalls[n].id = id}
RepliesTo(id) == {k \in DOMAIN cloudReplies : cloudReplies[k].id = id}
OnItsWay(id) == \/ \E k \in DOMAIN cloudInbound : cloudInbound[k] = [kind |-> "request", id |-> id]
                \/ cloudNow # Idle /\ cloudNow.id = id

CloudAnswersAreOwn ==
  /\ \A k \in DOMAIN cloudReplies : LET reply == cloudReplies[k] IN
       reply.result # <<>> =>
         /\ cloudCalls[reply.call].kind = "http" /\ cloudCalls[reply.call].id = reply.id
         /\ cloudCalls[reply.call].got.status \in 200..299
         /\ cloudCalls[reply.call].from = reply.call
         /\ cloudCalls[reply.call].at = Endpoint(cloudSent[reply.id])
  /\ \A n \in DOMAIN cloudCalls :
       /\ cloudCalls[n].handle \in AllowedKeyEnvs
       /\ cloudCalls[n].kind = "http" => KeyIsRight(n)
  /\ \A id \in DOMAIN cloudSent :
       /\ Cardinality(CallsOf(id)) <= 1 /\ Cardinality(RepliesTo(id)) <= 1
       /\ RepliesTo(id) = {} <=> OnItsWay(id) \/ id \in cloudMissed
=============================================================================
