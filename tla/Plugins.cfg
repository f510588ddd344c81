SPECIFICATION PluginsSpec
CONSTANTS
  VaultTasks = {t1,t2}
  SecretNames = {1,2}
  SecretValues = {1,2}
  Gone = Gone
  Broken = Broken
  KeyTexts <- MCKeyTexts
  NoMasterKey = NoMasterKey
  VaultRequests <- MCVaultRequests
  MaxVaultRequests = 3
  MaxVaultFaults = 1
  MaxVaultCrashes = 1
  NotifyRequests <- MCNotifyRequests
  EnabledProviders = {"espeak","notify-send"}
  HostBinaries = {"espeak","aplay"}
  MaxEntries = 2
  NoneGiven = NoneGiven
  MaxNotifyRequests = 3
  MaxNotifyFaults = 1
  MaxNotifyCrashes = 1
  MaxMillis = 1
  NetTasks = {t1,t2}
  NetCallers = {c1,c2}
  HttpRequests <- MCHttpRequests
  Literals = {"pub","priv"}
  HostNames = {"name"}
  BlockedRanges = {"priv"}
  ExtraBlocklist = {}
  NetAllowlist = {}
  InflightLimit = 1
  CacheMaxEntries = 2
  CacheMaxBytes = 2
  NotSet = NotSet
  MaxHttpRequests = 2
  MaxNetFaults = 2
  MaxNetTime = 1
  SoundRequests <- MCSoundRequests
  HostPlayers = {"aplay"}
  PinnedPlayer = Unset
  Unset = Unset
  MaxSourceBytes = 8
  MaxPlays = 3
  MaxSoundFaults = 1
  MaxSoundCrashes = 1
  MaxSoundMillis = 2
  NoteTasks = {t1,t2}
  NoteRequests <- MCNoteRequests
  NotesStored <- MCNotesStored
  Blank = Blank
  Absent = Absent
  NoteChannel = 1
  MaxNoteRequests = 2
  MaxNoteFaults = 1
  MaxNoteCrashes = 1
  ListenFrames <- MCListenFrames
  ModelDirs <- MCModelDirs
  MaxListenFrames = 5
  MaxListenBacklog = 1
  MaxListenOthers = 1
  MaxListenCrashes = 1
  ModelIds = {1,2,3}
  AgentIds = {1,2}
  AiConfigs <- MCAiConfigs
  ChatRequests <- MCChatRequests
  MaxAiStarts = 2
  MaxAiFaults = 1
  MaxChats = 1
  AiAttempts = 2
  CloudRequests <- MCCloudRequests
  AllowedKeyEnvs = {"KEY","OTHER"}
  EnvKeys = {"KEY"}
  VaultKeys = {0,1}
  HttpAnswers <- MCHttpAnswers
  MaxCloudRequests = 2
  MaxRotations = 1
  SpeakRequests <- MCSpeakRequests
  VoiceModels <- MCVoiceModels
  SampleCounts = {0,320,481,960}
  MaxSpeaks = 3
  MaxSpeakFaults = 1
  FileNames <- MCFileNames
  Disks <- MCDisks
  RawRoots <- MCRawRoots
  ListCap = 2
  ReadCap = 2
  HardCap = 2
  FileRequests <- MCFileRequests
  GatedRequests <- MCGatedRequests
  DataDir <- MCDataDir
  Confirmers <- MCConfirmers
  FileHandlers = {t1,t2}
  MaxFileReplies = 3
  MaxFileFaults = 1
  MaxPending = 1
  MediaPlayers <- MCMediaPlayers
  MediaConfigs <- MCMediaConfigs
  MediaRequests <- MCMediaRequests
  SeekTargets = {2}
  MaxAge = 1
  MaxI64 = 7
  MaxTicks = 1
  MaxPlayerEvents = 1
  MaxMediaReplies = 2
  Desktops <- MCDesktops
  SysRequests <- MCSysRequests
  ClipRequests <- MCClipRequests
  ClipMax = 1
  MaxDeskReplies = 2
  MaxKnobs = 1
  MaxToolFaults = 1
INVARIANTS
  VaultKeepsPromises
  NotifyTellsTheTruth
  NoBlockedConnection
  CallersAreApart
  SpeakersHaveOneOwner
  NotesTellTheTruth
  TranscriptsAreComplete
  DefaultsAreKept
  CloudAnswersAreOwn
  SpeechIsWhole
  FilesTellTheTruth
  MediaTellsTheTruth
  DesktopTellsTheTruth
CHECK_DEADLOCK FALSE
