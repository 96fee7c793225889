--------------------------- MODULE ModelDelivery ---------------------------
(***************************************************************************)
(* The way of a correction into the editor's model.  submit_knowledge      *)
(* appends samples and every few of them calls for a training;             *)
(* train_nppai.py, a process of its own, reads the samples and writes its  *)
(* tokenizer and the model, each in place;                                 *)
(* check_model_update names the model by a version that it caches;         *)
(* download_model streams the file; and the plugin's updater               *)
(* (AIManager::checkAndDownloadModelUpdate) puts it in place of its own.   *)
(*                                                                         *)
(* A model is the number of samples it was trained on, Torn one whose      *)
(* bytes are not all of one model: loadModel refuses it.  The checkpoint   *)
(* (models/checkpoint.pth) only warms the next training up, which starts   *)
(* from nothing if it cannot be read: it is left out.                      *)
(* The modification time of the server's file is a stamp that grows with   *)
(* each opening and each completion of the file.  The plugin's 60 s timer  *)
(* is slower here than an update: updaters do not overlap.                 *)
(***************************************************************************)
EXTENDS Naturals

CONSTANTS
  Plugin,       \* the client whose updater is modelled
  Visitors,     \* other clients, which only ask for the version
  None, Torn,   \* no file; a file that holds no whole model
  Threshold,    \* TRAINING_THRESHOLD, 5 in the code
  MinSamples,   \* samples that fill one training window
  MaxSamples,   \* bound: samples submitted
  MaxFaults     \* bound: crashes of a trainer or of the plugin, broken downloads and
                \* failed file operations of the updater

ASSUME DeliveryConstants ==
  /\ Plugin \notin Visitors /\ None \notin Nat /\ Torn \notin Nat /\ None # Torn
  /\ Threshold \in Nat \ {0} /\ MinSamples \in Nat /\ MaxSamples \in Nat /\ MaxFaults \in Nat

Clients == {Plugin} \cup Visitors

VARIABLES
  samples, newSamples,   \* entries of the dataset; new_samples_count
  scheduled,             \* background tasks that will call run_training_process
  trainer,               \* where the training process stands, "idle" if there is none
  learned,               \* samples the process has read
  merges,                \* models/bpe_merges.txt
  model, stamp,          \* the server's model file
  cacheKey, cacheValue,  \* model_version_cache_key and _value
  asking,                \* a client's request inside model_version
  updater,               \* where the plugin's updater stands
  offered,               \* versionStr
  incoming,              \* the download: what it opened, then the .new file
  local, localVersion,   \* the plugin's model file and its .version file
  engine,                \* the model the engine has loaded
  faults,
  cut, kept,             \* history: the last download broke off; the last file was not
                         \* put in place of the old one
  raced                  \* history: two requests hashed at a time

training == <<samples, newSamples, scheduled, trainer, learned, merges>>
cache    == <<cacheKey, cacheValue, asking, raced>>
client   == <<updater, offered, incoming, local, localVersion, engine, cut, kept>>
vars == <<training, model, stamp, cache, client, faults>>

Contents == {None, Torn} \cup 0..MaxSamples
NoVersion == [stamp |-> 0, of |-> None]
Versions == [stamp : 0..(2 * MaxSamples + 1), of : Contents]
NotAsking == [at |-> "out", stamp |-> 0, seen |-> None]

TypeOK ==
  /\ samples \in 0..MaxSamples /\ newSamples \in 0..(Threshold - 1)
  /\ scheduled \in 0..MaxSamples
  /\ trainer \in {"idle", "reading", "merging", "tokenizing", "learning", "exporting", "writing"}
  /\ learned \in 0..samples
  /\ merges \in {"absent", "torn", "whole"}
  /\ {model, incoming.of, local} \subseteq Contents
  /\ stamp \in 0..(2 * MaxSamples + 1) /\ incoming.stamp \in 0..stamp
  /\ cacheKey \in 0..stamp /\ cacheValue \in Versions
  /\ asking \in [Clients -> [at : {"out", "hashing", "keyed"}, stamp : 0..stamp, seen : Contents]]
  /\ updater \in {"idle", "asked", "downloading", "downloaded", "deleted", "moved", "named"}
  /\ offered \in Versions /\ localVersion \in Versions
  /\ engine \in {None} \cup 0..MaxSamples    \* never a torn model
  /\ faults \in 0..MaxFaults /\ cut \in BOOLEAN /\ kept \in BOOLEAN /\ raced \in BOOLEAN

Init ==
  /\ samples = 0 /\ newSamples = 0 /\ scheduled = 0
  /\ trainer = "idle" /\ learned = 0
  /\ merges = "absent"
  /\ \/ model = None /\ stamp = 0
     \/ model = 0 /\ stamp = 1
  /\ cacheKey = 0 /\ cacheValue = NoVersion
  /\ asking = [c \in Clients |-> NotAsking]
  /\ updater = "idle" /\ offered = NoVersion /\ incoming = NoVersion
  /\ local = None /\ localVersion = NoVersion /\ engine = None
  /\ faults = 0 /\ cut = FALSE /\ kept = FALSE /\ raced = FALSE

-----------------------------------------------------------------------------
\* The server: submit_knowledge and run_training_process

\* Under dataset_lock; a sample that cannot be written is answered 500 and leaves no trace.
SubmitKnowledge ==
  /\ samples < MaxSamples
  /\ samples' = samples + 1
  /\ IF newSamples + 1 >= Threshold
     THEN newSamples' = 0 /\ scheduled' = scheduled + 1
     ELSE newSamples' = newSamples + 1 /\ UNCHANGED scheduled
  /\ UNCHANGED <<trainer, learned, merges, model, stamp, cache, client, faults>>

\* With a training under way the call is lost.
RunTrainingProcess ==
  /\ scheduled > 0
  /\ scheduled' = scheduled - 1
  /\ trainer' = IF trainer = "idle" THEN "reading" ELSE trainer
  /\ UNCHANGED <<samples, newSamples, learned, merges, model, stamp, cache, client, faults>>

-----------------------------------------------------------------------------
\* The training process

\* What a process knows is gone when it ends.
AtTrainer(from, to) ==
  /\ trainer = from /\ trainer' = to
  /\ learned' = IF to = "idle" THEN 0 ELSE IF to = "merging" THEN samples ELSE learned

LoadDataset ==
  /\ AtTrainer("reading", "merging")
  /\ UNCHANGED <<samples, newSamples, scheduled, merges, model, stamp, cache, client, faults>>

\* The tokenizer is trained once and its file written in place; a torn file is read
\* back as far as it goes, or ends the process.
Tokenize ==
  /\ \/ merges = "absent" /\ AtTrainer("merging", "tokenizing") /\ merges' = "torn"
     \/ AtTrainer("tokenizing", "learning") /\ merges' = "whole"
     \/ merges # "absent" /\ AtTrainer("merging", "learning") /\ UNCHANGED merges
     \/ merges = "torn" /\ AtTrainer("merging", "idle") /\ UNCHANGED merges
  /\ UNCHANGED <<samples, newSamples, scheduled, model, stamp, cache, client, faults>>

\* get_batch cannot draw a window from fewer samples than fill it.
TooShort ==
  /\ learned < MinSamples
  /\ AtTrainer("learning", "idle")
  /\ UNCHANGED <<samples, newSamples, scheduled, merges, model, stamp, cache, client, faults>>

\* The whole loop, on windows drawn from everything that was read.
Learn ==
  /\ learned >= MinSamples
  /\ AtTrainer("learning", "exporting")
  /\ UNCHANGED <<samples, newSamples, scheduled, merges, model, stamp, cache, client, faults>>

\* (bug variant) the completed file keeps the time of its opening
ExportOneStamp ==
  /\ \/ AtTrainer("exporting", "writing") /\ model' = Torn /\ stamp' = stamp + 1
     \/ AtTrainer("writing", "idle") /\ model' = learned /\ UNCHANGED stamp
  /\ UNCHANGED <<samples, newSamples, scheduled, merges, cache, client, faults>>

\* export_to_bin opens the model file, which empties it, and writes it.
Export ==
  /\ \/ AtTrainer("exporting", "writing") /\ model' = Torn /\ stamp' = stamp + 1
     \/ AtTrainer("writing", "idle") /\ model' = learned /\ stamp' = stamp + 1
  /\ UNCHANGED <<samples, newSamples, scheduled, merges, cache, client, faults>>

\* The process is killed: its files stay as they are.
TrainerDies ==
  /\ trainer # "idle" /\ faults < MaxFaults
  /\ trainer' = "idle" /\ learned' = 0 /\ faults' = faults + 1
  /\ UNCHANGED <<samples, newSamples, scheduled, merges, model, stamp, cache, client>>

TrainerStep == LoadDataset \/ Tokenize \/ TooShort \/ Learn \/ Export

-----------------------------------------------------------------------------
\* The server: model_version, in a thread for each check_model_update

\* The answer: only the plugin's is followed up.
Answered(c, version) ==
  IF c = Plugin
  THEN IF version = localVersion
       THEN updater' = "idle" /\ offered' = NoVersion
       ELSE updater' = "asked" /\ offered' = version
  ELSE UNCHANGED <<offered, updater>>

\* The plugin's timer asks only when no update is under way.
MayAsk(c) == asking[c].at = "out" /\ (c = Plugin => updater = "idle")

\* The file's metadata are those of the cached version.
CacheHit == cacheKey = stamp /\ cacheValue # NoVersion

CheckCached(c) ==
  /\ MayAsk(c) /\ model # None /\ CacheHit
  /\ Answered(c, cacheValue)
  /\ UNCHANGED <<training, model, stamp, cache, incoming, local, localVersion, engine, cut, kept, faults>>

CheckHashing(c) ==
  /\ MayAsk(c) /\ model # None /\ ~CacheHit
  /\ asking' = [asking EXCEPT ![c] = [at |-> "hashing", stamp |-> stamp, seen |-> None]]
  /\ raced' = (raced \/ \E d \in Clients : asking[d].at # "out")
  /\ UNCHANGED <<training, model, stamp, cacheKey, cacheValue, client, faults>>

\* model_version_cache_key is assigned first ...
StoreKey(c) ==
  /\ asking[c].at = "hashing"
  /\ asking' = [asking EXCEPT ![c].at = "keyed", ![c].seen = model]
  /\ cacheKey' = asking[c].stamp
  /\ UNCHANGED <<training, model, stamp, cacheValue, raced, client, faults>>

\* ... and model_version_cache_value after it.
StoreValue(c) ==
  LET version == [stamp |-> asking[c].stamp, of |-> asking[c].seen]
  IN /\ asking[c].at = "keyed"
     /\ asking' = [asking EXCEPT ![c] = NotAsking]
     /\ cacheValue' = version
     /\ Answered(c, version)
     /\ UNCHANGED <<training, model, stamp, cacheKey, raced, incoming, local, localVersion, engine,
                    cut, kept, faults>>

-----------------------------------------------------------------------------
\* The plugin's updater

AtUpdater(from, to) == updater = from /\ updater' = to

StartDownload ==
  /\ AtUpdater("asked", "downloading")
  /\ incoming' = [stamp |-> stamp, of |-> model]
  /\ UNCHANGED <<training, model, stamp, cache, offered, local, localVersion, engine, cut, kept, faults>>

\* Chunks read before and after the file was rewritten make no model.
EndDownload ==
  /\ AtUpdater("downloading", "downloaded")
  /\ incoming' = [incoming EXCEPT !.of = IF incoming.stamp = stamp THEN model ELSE Torn]
  /\ cut' = FALSE
  /\ UNCHANGED <<training, model, stamp, cache, offered, local, localVersion, engine, kept, faults>>

\* A broken connection looks to the updater like the end of the file.
CutDownload ==
  /\ AtUpdater("downloading", "downloaded") /\ faults < MaxFaults
  /\ incoming' = [incoming EXCEPT !.of = Torn]
  /\ faults' = faults + 1 /\ cut' = TRUE
  /\ UNCHANGED <<training, model, stamp, cache, offered, local, localVersion, engine, kept>>

\* What DeleteFileA, MoveFileA and the version's stream answer is not looked at: the
\* updater goes on to its next step with the files as they are.
Unnoticed == faults < MaxFaults /\ faults' = faults + 1

DeleteLocal ==
  /\ AtUpdater("downloaded", "deleted")
  /\ \/ local' = None /\ UNCHANGED <<kept, faults>>
     \/ local # None /\ Unnoticed /\ kept' = TRUE /\ UNCHANGED local     \* open elsewhere
  /\ UNCHANGED <<training, model, stamp, cache, offered, incoming, localVersion, engine, cut>>

\* MoveFileA does not overwrite; the .new file that stays behind is overwritten by the
\* next download and read by nobody.
MoveNew ==
  /\ AtUpdater("deleted", "moved")
  /\ incoming' = NoVersion
  /\ \/ local = None /\ local' = incoming.of /\ kept' = FALSE /\ UNCHANGED faults
     \/ local = None /\ Unnoticed /\ kept' = TRUE /\ UNCHANGED local
     \/ local # None /\ UNCHANGED <<local, kept, faults>>
  /\ UNCHANGED <<training, model, stamp, cache, offered, localVersion, engine, cut>>

\* The version is written whatever became of the file.
WriteVersion ==
  /\ AtUpdater("moved", "named")
  /\ \/ localVersion' = offered /\ UNCHANGED faults
     \/ Unnoticed /\ localVersion' \in {localVersion, NoVersion}
  /\ offered' = NoVersion
  /\ UNCHANGED <<training, model, stamp, cache, incoming, local, engine, cut, kept>>

\* (bug variant) a file that is refused leaves the engine with the first model
LoadedFirst == IF local \in 0..MaxSamples THEN local ELSE 0

\* loadModel: payload size and hash decide.
Loaded == IF local \in 0..MaxSamples THEN local ELSE None

Reload ==
  /\ AtUpdater("named", "idle")
  /\ engine' = Loaded
  /\ UNCHANGED <<training, model, stamp, cache, offered, incoming, local, localVersion, cut, kept, faults>>

\* The editor ends and is started again; a version file it was writing may be empty.
\* (Not while its check is answered: that answer would find nobody.)
PluginRestarts ==
  /\ faults < MaxFaults /\ asking[Plugin].at = "out"
  /\ faults' = faults + 1
  /\ updater' = "idle" /\ offered' = NoVersion /\ incoming' = NoVersion
  /\ engine' = Loaded
  /\ localVersion' \in IF updater = "moved" THEN {localVersion, NoVersion} ELSE {localVersion}
  /\ UNCHANGED <<training, model, stamp, cache, local, cut, kept>>

UpdaterStep ==
  \/ CheckCached(Plugin) \/ CheckHashing(Plugin) \/ StoreKey(Plugin) \/ StoreValue(Plugin)
  \/ StartDownload \/ EndDownload \/ DeleteLocal \/ MoveNew \/ WriteVersion \/ Reload

VisitorStep ==
  \E v \in Visitors : CheckCached(v) \/ CheckHashing(v) \/ StoreKey(v) \/ StoreValue(v)

Next ==
  \/ SubmitKnowledge \/ RunTrainingProcess \/ TrainerStep \/ TrainerDies
  \/ UpdaterStep \/ VisitorStep \/ CutDownload \/ PluginRestarts

\* The timer fires for as long as the panel is open, and threads go on.  Nothing is
\* owed by the training process.
Spec ==
  /\ Init /\ [][Next]_vars
  /\ WF_vars(UpdaterStep)
  /\ \A v \in Visitors : WF_vars(StoreKey(v) \/ StoreValue(v))

-----------------------------------------------------------------------------
\* Properties

\* Crashes between the updater's steps, a version that could not be written, and a model
\* that is replaced while it is hashed or sent, do no lasting harm: once the server's file
\* is whole and stays, the engine ends up with it.  A download that broke off, and a file
\* that could not be put in place of the old one, get the new version's name all the same:
\* the engine is without the model until the server has yet another one, and an update to
\* that one heals it.  Two threads that hash at once can undo the promise for good.
UpdateConverges ==
  (<>[](trainer = "idle" /\ model \in 0..MaxSamples /\ ~cut /\ ~kept /\ ~raced)) => <>[](engine = model)

\* The engine runs a whole model or none, and never again one that was trained on
\* fewer samples than a model it has run: not after a crash between two steps of an
\* update, a training that was killed, a file replaced under its readers, a file that could
\* not be deleted or moved, or a version that was cached for another file.
KnowledgeGrows ==
  /\ [](engine # Torn)
  /\ \A n \in 1..MaxSamples : [](engine = n => [](engine \in {None} \cup n..MaxSamples))

\* CHANGELOG.md: "cached model versions by file metadata".
CachedByMetadata ==
  (\A c \in Clients : asking[c].at # "keyed")
    => cacheValue = NoVersion \/ cacheValue.stamp = cacheKey
=============================================================================
