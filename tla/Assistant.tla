----------------------------- MODULE Assistant ------------------------------
(***************************************************************************)
(* The ai plugin: a SQLite file of models, agents and token usage that is  *)
(* seeded from the operator's configuration at every start, extended by    *)
(* the model lists of the discovery sources, and read by chat_completion.  *)
(* Every statement commits by itself, and the process may end between two. *)
(***************************************************************************)
EXTENDS Integers, Sequences, SequencesExt, FiniteSets, FiniteSetsExt

CONSTANTS
  ModelIds,      \* ids of models, in the order of the database: integers
  AgentIds,      \* ids of agents, likewise
  AiConfigs,     \* what the operator may configure: models, agents, sources
  ChatRequests,  \* the chat_completion requests
  MaxAiStarts,   \* bound: starts of the process
  MaxAiFaults,   \* bound: statements the database refuses
  MaxChats,      \* bound: completions
  AiAttempts     \* STARTUP_REFRESH_ATTEMPTS (5 in the code)

\* What the configurations may say; the database keeps its rows in order of their ids.
ASSUME AiAssumption ==
  /\ ModelIds \subseteq Nat /\ IsFiniteSet(ModelIds) /\ AgentIds \subseteq Nat
  /\ \A cfg \in AiConfigs :
       /\ cfg.models \in Seq([id : ModelIds, at : STRING, default : BOOLEAN])
       /\ cfg.agents \in Seq([id : AgentIds, model : ModelIds, default : BOOLEAN])
       /\ cfg.sources \in Seq([provider : STRING, ids : Seq(ModelIds)])

VARIABLES
  aiModels,    \* table models: NoRow or where the model is served, and is_default
  aiAgents,    \* table agents: NoRow or the agent's model, and is_default
  aiUsage,     \* table usage: the completions recorded
  aiCfg,       \* the configuration of this life
  aiPhase,     \* what the process is doing
  aiTodo,      \* the statements of that phase still to be run
  aiSources,   \* the discovery sources still to be asked; errs: one has failed
  aiAttempt,   \* attempts of the startup refresh
  aiBefore,    \* history: the default models when the process started
  aiSeeded,    \* history: models were stored when the seed ended
  aiFaults,    \* history: statements refused
  aiClean,     \* history: none of them in this life
  aiReplied,   \* history: completions answered
  aiStarts     \* starts so far

aiTables == <<aiModels, aiAgents, aiUsage>>
aiHistory == <<aiBefore, aiSeeded, aiReplied, aiStarts>>
aiVars == <<aiTables, aiCfg, aiPhase, aiTodo, aiSources, aiAttempt, aiFaults, aiClean, aiHistory>>

NoRow == [default |-> FALSE]
Rows(table) == {id \in DOMAIN table : table[id] # NoRow}
Defaults(table) == {id \in Rows(table) : table[id].default}

AiInit ==
  /\ aiModels = [m \in ModelIds |-> NoRow] /\ aiAgents = [a \in AgentIds |-> NoRow]
  /\ aiUsage = <<>>
  /\ aiCfg \in AiConfigs
  /\ aiPhase = "down" /\ aiTodo = <<>> /\ aiSources = [todo |-> <<>>, errs |-> FALSE]
  /\ aiAttempt = 0 /\ aiBefore = {} /\ aiSeeded = FALSE
  /\ aiFaults = 0 /\ aiClean = TRUE /\ aiReplied = 0 /\ aiStarts = 0

-----------------------------------------------------------------------------
\* The statements of db.rs.
UpsertModel(m) == [op |-> "model", id |-> m.id, row |-> [at |-> m.at, default |-> m.default]]
UpsertAgent(a) == [op |-> "agent", id |-> a.id, row |-> [at |-> a.model, default |-> a.default]]
RecordUsage(r) == [op |-> "usage", row |-> r]
\* Mutant: only the flag of the new default is written.
SetModelDefault_OnlySets(id) == <<[op |-> "setModel", id |-> id]>>
SetModelDefault(id) == <<[op |-> "clearModels"], [op |-> "setModel", id |-> id]>>
SetAgentDefault(id) == <<[op |-> "clearAgents"], [op |-> "setAgent", id |-> id]>>

Cleared(table) == [id \in DOMAIN table |-> [table[id] EXCEPT !.default = FALSE]]
Chosen(table, id) ==
  IF id \in Rows(table) THEN [table EXCEPT ![id].default = TRUE] ELSE table

\* A discovered model takes the place of what is stored under its id, but for the flag.
\* Mutant: the flag is written like the rest.
Discovered_Demotes(s) == [at |-> s.row.at, default |-> FALSE]
Discovered(s) == [at |-> s.row.at, default |-> aiModels[s.id].default]

Executed(s) ==
  /\ aiModels' = CASE s.op = "model" -> [aiModels EXCEPT ![s.id] = s.row]
                   [] s.op = "discovered" -> [aiModels EXCEPT ![s.id] = Discovered(s)]
                   [] s.op = "clearModels" -> Cleared(aiModels)
                   [] s.op = "setModel" -> Chosen(aiModels, s.id)
                   [] OTHER -> aiModels
  /\ aiAgents' = CASE s.op = "agent" -> [aiAgents EXCEPT ![s.id] = s.row]
                   [] s.op = "clearAgents" -> Cleared(aiAgents)
                   [] s.op = "setAgent" -> Chosen(aiAgents, s.id)
                   [] OTHER -> aiAgents
  /\ aiUsage' = IF s.op = "usage" THEN Append(aiUsage, s.row) ELSE aiUsage

AiStatement ==
  /\ aiTodo # <<>>
  /\ Executed(Head(aiTodo)) /\ aiTodo' = Tail(aiTodo)
  /\ UNCHANGED <<aiCfg, aiPhase, aiSources, aiAttempt, aiFaults, aiClean, aiHistory>>

\* A refused statement ends what it is part of: the rest of the seed, the
\* refresh; the usage row of a completion is given up, and its model not touched.
AiStatementFails ==
  /\ aiTodo # <<>> /\ aiFaults < MaxAiFaults
  /\ aiFaults' = aiFaults + 1 /\ aiClean' = FALSE
  /\ aiTodo' = <<>>
  /\ aiPhase' = CASE aiPhase \in {"seed", "defaultModel", "defaultAgent"} -> "discover"
                  [] OTHER -> aiPhase
  /\ aiSources' = IF aiPhase = "refresh" THEN [todo |-> <<>>, errs |-> TRUE] ELSE aiSources
  /\ UNCHANGED <<aiTables, aiCfg, aiAttempt, aiHistory>>

-----------------------------------------------------------------------------
\* The process starts and seeds the tables with what the operator declares.
AiStart(cfg) ==
  /\ aiPhase = "down" /\ aiStarts < MaxAiStarts
  /\ aiStarts' = aiStarts + 1
  /\ aiCfg' = cfg /\ aiPhase' = "seed"
  /\ aiTodo' = [i \in DOMAIN cfg.models |-> UpsertModel(cfg.models[i])]
               \o [i \in DOMAIN cfg.agents |-> UpsertAgent(cfg.agents[i])]
  /\ aiBefore' = Defaults(aiModels) /\ aiSeeded' = FALSE /\ aiClean' = TRUE
  /\ aiAttempt' = 0
  /\ UNCHANGED <<aiTables, aiSources, aiFaults, aiReplied>>

\* The last default declared, or a stored one, or the first row.
DeclaredDefaults(seq) == {i \in DOMAIN seq : seq[i].default}
LastDeclared(seq) == seq[Max(DeclaredDefaults(seq))].id
DefaultOf(seq, table) ==
  IF DeclaredDefaults(seq) # {} THEN {LastDeclared(seq)}
  ELSE IF Defaults(table) # {} THEN {Min(Defaults(table))}
  ELSE IF Rows(table) # {} THEN {Min(Rows(table))} ELSE {}

AiDefaultModel ==
  /\ aiPhase = "seed" /\ aiTodo = <<>>
  /\ aiPhase' = "defaultModel"
  /\ \/ DefaultOf(aiCfg.models, aiModels) = {} /\ aiTodo' = <<>>
     \/ \E id \in DefaultOf(aiCfg.models, aiModels) : aiTodo' = SetModelDefault(id)
  /\ aiSeeded' = (Rows(aiModels) # {})
  /\ UNCHANGED <<aiTables, aiCfg, aiSources, aiAttempt, aiFaults, aiClean, aiBefore, aiReplied, aiStarts>>

AiDefaultAgent ==
  /\ aiPhase = "defaultModel" /\ aiTodo = <<>>
  /\ aiPhase' = "defaultAgent"
  /\ \/ DefaultOf(aiCfg.agents, aiAgents) = {} /\ aiTodo' = <<>>
     \/ \E id \in DefaultOf(aiCfg.agents, aiAgents) : aiTodo' = SetAgentDefault(id)
  /\ UNCHANGED <<aiTables, aiCfg, aiSources, aiAttempt, aiFaults, aiClean, aiHistory>>

AiSeedEnds ==
  /\ aiPhase = "defaultAgent" /\ aiTodo = <<>>
  /\ aiPhase' = "discover"
  /\ UNCHANGED <<aiTables, aiCfg, aiTodo, aiSources, aiAttempt, aiFaults, aiClean, aiHistory>>

\* The startup refresh, once more while a source has failed.
AiDiscover ==
  /\ aiPhase = "discover"
  /\ IF aiCfg.sources # <<>> /\ aiAttempt < AiAttempts /\ (aiAttempt = 0 \/ aiSources.errs)
       THEN /\ aiPhase' = "refresh" /\ aiAttempt' = aiAttempt + 1
            /\ aiSources' = [todo |-> aiCfg.sources, errs |-> FALSE]
       ELSE aiPhase' = "tie" /\ UNCHANGED <<aiAttempt, aiSources>>
  /\ UNCHANGED <<aiTables, aiCfg, aiTodo, aiFaults, aiClean, aiHistory>>

\* One source answers with its list, or does not.
\* ollama is only a source: its models are served by the openai protocol.
StoredAt(src) == IF src.provider = "ollama" THEN "openai" ELSE src.provider

AiFetch ==
  /\ aiPhase = "refresh" /\ aiTodo = <<>> /\ aiSources.todo # <<>>
  /\ LET src == Head(aiSources.todo) IN
       \/ aiTodo' = [i \in DOMAIN src.ids |->
                       [op |-> "discovered", id |-> src.ids[i], row |-> [at |-> StoredAt(src)]]]
          /\ aiSources' = [aiSources EXCEPT !.todo = Tail(@)]
       \/ aiTodo' = <<>> /\ aiSources' = [todo |-> Tail(aiSources.todo), errs |-> TRUE]
  /\ UNCHANGED <<aiTables, aiCfg, aiPhase, aiAttempt, aiFaults, aiClean, aiHistory>>

\* The startup refresh ends in the next attempt, a requested one in its reply.
AiFetched ==
  /\ aiPhase = "refresh" /\ aiTodo = <<>> /\ aiSources.todo = <<>>
  /\ aiPhase' = IF aiAttempt > AiAttempts THEN "serving" ELSE "discover"
  /\ UNCHANGED <<aiTables, aiCfg, aiTodo, aiSources, aiAttempt, aiFaults, aiClean, aiHistory>>

\* Without a default model, that of the default agent.
AiTie ==
  /\ aiPhase = "tie"
  /\ aiPhase' = "serving" /\ aiAttempt' = AiAttempts + 1
  /\ aiTodo' = IF Defaults(aiModels) # {} \/ Defaults(aiAgents) = {} THEN <<>>
               ELSE LET m == aiAgents[Min(Defaults(aiAgents))].at IN
                    IF m \in Rows(aiModels) THEN SetModelDefault(m) ELSE <<>>
  /\ UNCHANGED <<aiTables, aiCfg, aiSources, aiFaults, aiClean, aiHistory>>

-----------------------------------------------------------------------------
\* What chat_completion accepts: without an agent every field is needed.
ValidChat(r) ==
  /\ r.messages > 0
  /\ r.agent # 0 \/ (r.provider # "none" /\ r.model # 0 /\ r.keyEnv)
  /\ r.agent # 0 \/ r.provider # "openai" \/ r.baseUrl

\* Where it goes: the agent's model, or the model named, as stored; a model that
\* is not stored is served from the request's own fields, never for an agent.
ChatModel(r) == IF r.agent # 0 THEN aiAgents[r.agent].at ELSE r.model
ResolvesChat(r) ==
  /\ r.agent # 0 => r.agent \in Rows(aiAgents)
  /\ IF ChatModel(r) \in Rows(aiModels)
       THEN aiModels[ChatModel(r)].at \in {"anthropic", "openai"}
       ELSE r.agent = 0

\* One chat_completion; key and completion come from other plugins, and any of
\* them may fail. The usage row is written before the reply is sent.
AiChat(r) ==
  /\ aiPhase = "serving" /\ aiTodo = <<>>
  /\ aiReplied < MaxChats
  /\ ValidChat(r) /\ ResolvesChat(r)
  /\ aiTodo' = <<RecordUsage([agent |-> r.agent, model |-> ChatModel(r)])>>
  /\ aiPhase' = "reply"
  /\ UNCHANGED <<aiTables, aiCfg, aiSources, aiAttempt, aiFaults, aiClean, aiHistory>>

AiReply ==
  /\ aiPhase = "reply" /\ aiTodo = <<>>
  /\ aiPhase' = "serving" /\ aiReplied' = aiReplied + 1
  /\ UNCHANGED <<aiTables, aiCfg, aiTodo, aiSources, aiAttempt, aiFaults, aiClean, aiBefore, aiSeeded,
                 aiStarts>>

\* refresh_models on request.
AiRefresh ==
  /\ aiPhase = "serving" /\ aiTodo = <<>>
  /\ aiPhase' = "refresh" /\ aiSources' = [todo |-> aiCfg.sources, errs |-> FALSE]
  /\ UNCHANGED <<aiTables, aiCfg, aiTodo, aiAttempt, aiFaults, aiClean, aiHistory>>

\* The process ends, between two statements or anywhere else.
AiCrash ==
  /\ aiPhase # "down"
  /\ aiPhase' = "down" /\ aiTodo' = <<>> /\ aiSources' = [todo |-> <<>>, errs |-> FALSE]
  /\ UNCHANGED <<aiTables, aiCfg, aiAttempt, aiFaults, aiClean, aiHistory>>

AiNext ==
  \/ \E cfg \in AiConfigs : AiStart(cfg)
  \/ AiStatement \/ AiStatementFails
  \/ AiDefaultModel \/ AiDefaultAgent \/ AiSeedEnds
  \/ AiDiscover \/ AiFetch \/ AiFetched \/ AiTie
  \/ \E r \in ChatRequests : AiChat(r)
  \/ AiReply \/ AiRefresh \/ AiCrash

AiSpec == AiInit /\ [][AiNext]_aiVars

-----------------------------------------------------------------------------
(* Whatever is declared, discovered, refused or cut short before: a process *)
(* that serves and whose database has refused it nothing has one default    *)
(* model when models were stored at its seed, the one declared as such, or  *)
(* else the one it found, unless the configuration declared that one again; *)
(* a model list never moves the flag. And every completion answered has its *)
(* row of usage, but for the rows the database refused.                     *)
DefaultsAreKept ==
  /\ aiPhase = "serving" /\ aiTodo = <<>> /\ aiClean =>
       /\ Cardinality(Defaults(aiModels)) \in (IF aiSeeded THEN {1} ELSE {0, 1})
       /\ Cardinality(Defaults(aiAgents)) <= 1
       /\ LET again == {aiCfg.models[i].id : i \in DOMAIN aiCfg.models} IN
            IF DeclaredDefaults(aiCfg.models) # {}
              THEN Defaults(aiModels) = {LastDeclared(aiCfg.models)}
            ELSE Cardinality(aiBefore) = 1 /\ aiBefore \cap again = {}
                   => Defaults(aiModels) = aiBefore
  /\ Len(aiUsage) >= aiReplied - aiFaults
=============================================================================
