------------------------ MODULE ModelDeliveryProofs ------------------------
(***************************************************************************)
(* What holds on the way of a correction for every threshold, number of    *)
(* samples, number of faults and set of other clients: the state is well   *)
(* formed, the two stamps of an export being paid for by samples, and the  *)
(* engine never goes back to a model of fewer samples.                     *)
(***************************************************************************)
EXTENDS ModelDelivery, TLAPS

\* The stamps that the trainings called for have still to spend.
Pending == IF trainer = "idle" THEN 0 ELSE IF trainer = "writing" THEN 1 ELSE 2

\* A stamp is an opening or a completion of the model file, a training is called for
\* by a sample at least, and the first model has one stamp.
StampsArePaid == stamp + 2 * scheduled + Pending <= 2 * samples + 1

\* TypeOK with the shape of a download, which its parts do not tell.
DeliveryInv ==
  /\ TypeOK
  /\ incoming \in [stamp : 0..stamp, of : Contents]
  /\ StampsArePaid

\* What is paid for: neither more calls than samples nor more than two stamps of each.
LEMMA Paid ==
  ASSUME NEW a \in Nat, NEW b \in Nat, NEW p \in Nat, NEW s \in Nat, a + 2 * b + p <= 2 * s + 1
  PROVE  b <= s /\ a <= 2 * s + 1
OBVIOUS

LEMMA PaidAtMost ==
  ASSUME NEW a \in Nat, NEW s \in Nat, NEW m \in Nat, a <= 2 * s + 1, s <= m
  PROVE  a \in 0..(2 * m + 1)
OBVIOUS

\* The next-state relation in the pieces that the proofs below take one by one.
AskStep(c) == CheckCached(c) \/ CheckHashing(c) \/ StoreKey(c) \/ StoreValue(c)

\* Every step is one of the actions, and every request one of a client.
LEMMA Steps ==
  ASSUME Next
  PROVE  \/ SubmitKnowledge \/ RunTrainingProcess \/ TrainerStep \/ TrainerDies
         \/ \E c \in Clients : AskStep(c)
         \/ StartDownload \/ EndDownload \/ CutDownload \/ DeleteLocal \/ MoveNew
         \/ WriteVersion \/ Reload \/ PluginRestarts
BY DEF Next, UpdaterStep, VisitorStep, AskStep, Clients

-----------------------------------------------------------------------------
\* Well-formed states

\* An older request stays one: the stamp only grows.
LEMMA AskingStays ==
  ASSUME DeliveryInv, asking' = asking, stamp' \in Nat, stamp <= stamp'
  PROVE  asking' \in [Clients -> [at : {"out", "hashing", "keyed"}, stamp : 0..stamp', seen : Contents]]
<1>1. 0..stamp \subseteq 0..stamp'
  BY DEF DeliveryInv, TypeOK
<1>2. [at : {"out", "hashing", "keyed"}, stamp : 0..stamp, seen : Contents]
        \subseteq [at : {"out", "hashing", "keyed"}, stamp : 0..stamp', seen : Contents]
  BY <1>1
<1> QED
  BY <1>2 DEF DeliveryInv, TypeOK

\* The first state.
LEMMA DeliveryStarts == Init => DeliveryInv
<1> SUFFICES ASSUME Init PROVE DeliveryInv
  OBVIOUS
<1> USE DeliveryConstants
<1>1. NoVersion \in Versions /\ NoVersion \in [stamp : 0..stamp, of : Contents]
  BY DEF Init, NoVersion, Versions, Contents
<1>2. asking \in [Clients -> [at : {"out", "hashing", "keyed"}, stamp : 0..stamp, seen : Contents]]
  BY DEF Init, NotAsking, Contents
<1>3. /\ {model, incoming.of, local} \subseteq Contents
      /\ stamp \in 0..(2 * MaxSamples + 1) /\ incoming.stamp \in 0..stamp
  BY DEF Init, NoVersion, Contents
<1>4. StampsArePaid
  BY DEF Init, StampsArePaid, Pending
<1>5. /\ samples \in 0..MaxSamples /\ newSamples \in 0..(Threshold - 1)
      /\ scheduled \in 0..MaxSamples /\ learned \in 0..samples /\ cacheKey \in 0..stamp
      /\ faults \in 0..MaxFaults
  BY DEF Init
<1>6. /\ trainer = "idle" /\ merges = "absent" /\ updater = "idle"
      /\ cacheValue = NoVersion /\ offered = NoVersion /\ localVersion = NoVersion
      /\ incoming = NoVersion /\ engine = None /\ cut = FALSE /\ kept = FALSE /\ raced = FALSE
  BY DEF Init
<1> QED
  BY <1>1, <1>2, <1>3, <1>4, <1>5, <1>6 DEF DeliveryInv, TypeOK

\* The samples and the calls for a training.
LEMMA ServerTyped ==
  ASSUME DeliveryInv, SubmitKnowledge \/ RunTrainingProcess
  PROVE  DeliveryInv'
<1> USE DeliveryConstants
<1>1. /\ UNCHANGED <<learned, merges, model, stamp, cache, client, faults>>
      /\ samples' \in 0..MaxSamples /\ samples <= samples'
      /\ newSamples' \in 0..(Threshold - 1)
      /\ trainer' \in {"idle", "reading", "merging", "tokenizing", "learning", "exporting", "writing"}
  BY DEF SubmitKnowledge, RunTrainingProcess, DeliveryInv, TypeOK
<1>2. scheduled' \in Nat /\ StampsArePaid'
  BY DEF SubmitKnowledge, RunTrainingProcess, DeliveryInv, TypeOK, StampsArePaid, Pending
<1>3. scheduled' \in 0..MaxSamples
  <2>1. Pending' \in Nat /\ stamp' \in Nat /\ samples' \in Nat
    BY <1>1 DEF Pending, DeliveryInv, TypeOK
  <2>2. scheduled' \in Nat /\ stamp' + 2 * scheduled' + Pending' <= 2 * samples' + 1
    BY <1>2 DEF StampsArePaid
  <2>3. scheduled' <= samples'
    BY <2>1, <2>2, Paid
  <2> QED
    BY <1>1, <2>2, <2>3
<1> QED
  BY <1>1, <1>2, <1>3 DEF DeliveryInv, TypeOK, cache, client

\* The training process, which only its export and its death change more of.
LEMMA TrainerTyped ==
  ASSUME DeliveryInv, TrainerStep \/ TrainerDies
  PROVE  DeliveryInv'
<1> USE DeliveryConstants
<1>1. /\ UNCHANGED <<samples, newSamples, scheduled, cache, client>>
      /\ learned' \in 0..samples'
      /\ merges' \in {"absent", "torn", "whole"}
      /\ trainer' \in {"idle", "reading", "merging", "tokenizing", "learning", "exporting", "writing"}
      /\ faults' \in 0..MaxFaults
  BY DEF TrainerStep, TrainerDies, LoadDataset, Tokenize, TooShort, Learn, Export, AtTrainer,
         DeliveryInv, TypeOK
<1>2. stamp' \in Nat /\ stamp <= stamp' /\ StampsArePaid'
  BY DEF TrainerStep, TrainerDies, LoadDataset, Tokenize, TooShort, Learn, Export, AtTrainer,
         DeliveryInv, TypeOK, StampsArePaid, Pending
<1>3. stamp' \in 0..(2 * MaxSamples + 1)
  <2>1. /\ Pending' \in Nat /\ scheduled' \in Nat
        /\ samples' \in Nat /\ samples' <= MaxSamples /\ MaxSamples \in Nat
    BY <1>1 DEF Pending, DeliveryInv, TypeOK
  <2>2. stamp' + 2 * scheduled' + Pending' <= 2 * samples' + 1
    BY <1>2 DEF StampsArePaid
  <2>3. stamp' \in Nat /\ stamp' <= 2 * samples' + 1
    BY <1>2, <2>1, <2>2, Paid
  <2> QED
    BY <2>1, <2>3, PaidAtMost
<1>4. model' \in Contents
  BY DEF TrainerStep, TrainerDies, LoadDataset, Tokenize, TooShort, Learn, Export, AtTrainer,
         DeliveryInv, TypeOK, Contents
<1>5. asking' \in [Clients -> [at : {"out", "hashing", "keyed"}, stamp : 0..stamp', seen : Contents]]
  BY <1>1, <1>2, AskingStays DEF cache
<1>6. incoming' \in [stamp : 0..stamp', of : Contents] /\ cacheKey' \in 0..stamp'
  BY <1>1, <1>2 DEF cache, client, DeliveryInv, TypeOK
<1> QED
  BY <1>1, <1>2, <1>3, <1>4, <1>5, <1>6 DEF DeliveryInv, TypeOK, cache, client

\* What a client is answered is a version.
LEMMA AnswerTyped ==
  ASSUME DeliveryInv, NEW c \in Clients, NEW version \in Versions, Answered(c, version)
  PROVE  /\ offered' \in Versions
         /\ updater' \in {"idle", "asked", "downloading", "downloaded", "deleted", "moved", "named"}
<1>1. NoVersion \in Versions
  BY DeliveryConstants DEF NoVersion, Versions, Contents
<1> QED
  BY <1>1 DEF Answered, DeliveryInv, TypeOK

\* A request inside model_version.
LEMMA AskTyped ==
  ASSUME DeliveryInv, NEW c \in Clients, AskStep(c)
  PROVE  DeliveryInv'
<1> USE DeliveryConstants
<1> DEFINE Asks == [Clients -> [at : {"out", "hashing", "keyed"}, stamp : 0..stamp, seen : Contents]]
<1>1. UNCHANGED <<training, model, stamp, incoming, local, localVersion, engine, cut, kept, faults>>
  BY DEF AskStep, CheckCached, CheckHashing, StoreKey, StoreValue, client
<1>2. StampsArePaid'
  BY <1>1 DEF DeliveryInv, StampsArePaid, Pending, training
<1>3. /\ asking' \in Asks /\ cacheKey' \in 0..stamp /\ cacheValue' \in Versions
      /\ raced' \in BOOLEAN /\ offered' \in Versions
      /\ updater' \in {"idle", "asked", "downloading", "downloaded", "deleted", "moved", "named"}
  <2>1. CASE CheckCached(c)
    <3>1. cacheValue \in Versions
      BY DEF DeliveryInv, TypeOK
    <3> QED
      BY <2>1, <3>1, AnswerTyped DEF CheckCached, cache, DeliveryInv, TypeOK
  <2>2. CASE CheckHashing(c)
    <3>1. [at |-> "hashing", stamp |-> stamp, seen |-> None]
            \in [at : {"out", "hashing", "keyed"}, stamp : 0..stamp, seen : Contents]
      BY DEF DeliveryInv, TypeOK, Contents
    <3>2. raced' \in BOOLEAN
      BY <2>2 DEF CheckHashing
    <3>3. asking' \in Asks
      BY <2>2, <3>1 DEF CheckHashing, DeliveryInv, TypeOK
    <3> QED
      BY <2>2, <3>2, <3>3 DEF CheckHashing, client, DeliveryInv, TypeOK
  <2>3. CASE StoreKey(c)
    <3>1. asking' \in Asks
      BY <2>3 DEF StoreKey, DeliveryInv, TypeOK
    <3>2. cacheKey' \in 0..stamp
      BY <2>3 DEF StoreKey, DeliveryInv, TypeOK
    <3> QED
      BY <2>3, <3>1, <3>2 DEF StoreKey, client, DeliveryInv, TypeOK
  <2>4. CASE StoreValue(c)
    <3> DEFINE version == [stamp |-> asking[c].stamp, of |-> asking[c].seen]
    <3>1. version \in Versions
      BY DEF DeliveryInv, TypeOK, Versions
    <3>2. NotAsking \in [at : {"out", "hashing", "keyed"}, stamp : 0..stamp, seen : Contents]
      BY DEF DeliveryInv, TypeOK, Contents, NotAsking
    <3>3. asking' \in Asks
      BY <2>4, <3>2 DEF StoreValue, DeliveryInv, TypeOK
    <3>4. Answered(c, version) /\ cacheValue' = version /\ UNCHANGED <<cacheKey, raced>>
      BY <2>4 DEF StoreValue
    <3> HIDE DEF version
    <3> QED
      BY <3>1, <3>3, <3>4, AnswerTyped DEF DeliveryInv, TypeOK
  <2> QED
    BY <2>1, <2>2, <2>3, <2>4 DEF AskStep
<1> QED
  BY <1>1, <1>2, <1>3 DEF DeliveryInv, TypeOK, training

\* The updater, and the end of the editor.
LEMMA UpdaterTyped ==
  ASSUME DeliveryInv,
         \/ StartDownload \/ EndDownload \/ CutDownload \/ DeleteLocal \/ MoveNew
         \/ WriteVersion \/ Reload \/ PluginRestarts
  PROVE  DeliveryInv'
<1> USE DeliveryConstants
<1>1. UNCHANGED <<training, model, stamp, cache>>
  BY DEF StartDownload, EndDownload, CutDownload, DeleteLocal, MoveNew, WriteVersion, Reload,
         PluginRestarts
<1>2. StampsArePaid'
  BY <1>1 DEF DeliveryInv, StampsArePaid, Pending, training
<1>3. NoVersion \in Versions /\ NoVersion \in [stamp : 0..stamp, of : Contents]
  BY DEF NoVersion, Versions, Contents, DeliveryInv, TypeOK
<1>4. incoming' \in [stamp : 0..stamp, of : Contents]
  <2>1. incoming \in [stamp : 0..stamp, of : Contents] /\ model \in Contents /\ stamp \in 0..stamp
    BY DEF DeliveryInv, TypeOK
  <2>2. \A v \in Contents : [incoming EXCEPT !.of = v] \in [stamp : 0..stamp, of : Contents]
    BY <2>1
  <2>3. Torn \in Contents
    BY DEF Contents
  <2>4. CASE EndDownload \/ CutDownload
    BY <2>1, <2>2, <2>3, <2>4 DEF EndDownload, CutDownload
  <2>5. CASE StartDownload
    BY <2>1, <2>5 DEF StartDownload
  <2>6. CASE \/ DeleteLocal \/ MoveNew \/ WriteVersion \/ Reload \/ PluginRestarts
    BY <1>3, <2>1, <2>6 DEF DeleteLocal, MoveNew, WriteVersion, Reload, PluginRestarts
  <2> QED
    BY <2>4, <2>5, <2>6
<1>5. /\ local' \in Contents /\ engine' \in {None} \cup 0..MaxSamples
  BY DEF StartDownload, EndDownload, CutDownload, DeleteLocal, MoveNew, WriteVersion, Reload,
         PluginRestarts, Loaded, DeliveryInv, TypeOK, Contents
<1>6. offered' \in Versions /\ localVersion' \in Versions
  <2>1. offered \in Versions /\ localVersion \in Versions
    BY DEF DeliveryInv, TypeOK
  <2>2. /\ offered' \in {offered, NoVersion}
        /\ localVersion' \in {localVersion, offered, NoVersion}
    BY SMTT(30) DEF StartDownload, EndDownload, CutDownload, DeleteLocal, MoveNew, WriteVersion, Reload,
           PluginRestarts
  <2> QED
    BY <1>3, <2>1, <2>2
<1>8. updater' \in {"idle", "asked", "downloading", "downloaded", "deleted", "moved", "named"}
  BY SMTT(30) DEF StartDownload, EndDownload, CutDownload, DeleteLocal, MoveNew, WriteVersion, Reload,
         PluginRestarts, AtUpdater
<1>7. faults' \in 0..MaxFaults /\ cut' \in BOOLEAN /\ kept' \in BOOLEAN
  <2>1. faults \in 0..MaxFaults /\ cut \in BOOLEAN /\ kept \in BOOLEAN
    BY DEF DeliveryInv, TypeOK
  <2>2. (faults < MaxFaults /\ faults' = faults + 1) \/ faults' = faults
    BY DEF StartDownload, EndDownload, CutDownload, DeleteLocal, MoveNew, WriteVersion, Reload,
           PluginRestarts, Unnoticed
  <2>3. cut' \in {cut, TRUE, FALSE} /\ kept' \in {kept, TRUE, FALSE}
    BY DEF StartDownload, EndDownload, CutDownload, DeleteLocal, MoveNew, WriteVersion, Reload,
           PluginRestarts
  <2>4. faults' \in 0..MaxFaults
    BY <2>1, <2>2
  <2> QED
    BY <2>1, <2>3, <2>4
<1> QED
  BY <1>1, <1>2, <1>4, <1>5, <1>6, <1>7, <1>8 DEF DeliveryInv, TypeOK, training, cache

LEMMA DeliveryStays == DeliveryInv /\ [Next]_vars => DeliveryInv'
<1> SUFFICES ASSUME DeliveryInv, [Next]_vars PROVE DeliveryInv'
  OBVIOUS
<1>1. CASE UNCHANGED vars
  BY <1>1 DEF vars, training, cache, client, DeliveryInv, TypeOK, StampsArePaid, Pending
<1>2. CASE Next
  BY <1>2, Steps, ServerTyped, TrainerTyped, AskTyped, UpdaterTyped
<1> QED
  BY <1>1, <1>2

\* Whatever is submitted, trained, asked and lost, the state of a delivery is well
\* formed, and the engine has loaded a whole model or none.
THEOREM DeliveryAlwaysTyped == Spec => []TypeOK
<1>1. DeliveryInv => TypeOK
  BY DEF DeliveryInv
<1> QED
  BY <1>1, DeliveryStarts, DeliveryStays, PTL DEF Spec

-----------------------------------------------------------------------------
\* The engine never goes back

\* A whole model a is of no more samples than b.
NoMore(a, b) == a \in Nat /\ b \in Nat => a <= b

\* The training process has read the samples.
HasRead == trainer \in {"merging", "tokenizing", "learning", "exporting", "writing"}

\* A model goes from the dataset over the training process, the server's file, the
\* download and the plugin's file to the engine: downstream it is of no more samples.
\* A torn or a missing file on the way says nothing, so each place is compared with
\* every one before it.
DownstreamInv ==
  /\ NoMore(engine, local) /\ NoMore(engine, incoming.of) /\ NoMore(engine, model)
  /\ NoMore(local, incoming.of) /\ NoMore(local, model)
  /\ NoMore(incoming.of, model)
  /\ \A v \in {engine, local, incoming.of, model} :
       NoMore(v, samples) /\ (HasRead => NoMore(v, learned))

\* No place holds a whole model of fewer than n samples, and none is about to be made.
AtLeast(n) ==
  /\ NoMore(n, engine) /\ NoMore(n, local) /\ NoMore(n, incoming.of) /\ NoMore(n, model)
  /\ NoMore(n, samples) /\ (HasRead => NoMore(n, learned))

\* The places a step of the training process changes: the server's file, torn or of what
\* was read.
LEMMA TrainerFlow ==
  ASSUME DeliveryInv, TrainerStep \/ TrainerDies
  PROVE  /\ UNCHANGED <<engine, local, incoming, samples>>
         /\ model' \in {model, Torn, learned} /\ (model' # model => HasRead)
         /\ HasRead' => learned' = samples \/ (HasRead /\ learned' = learned)
<1> USE DEF HasRead, AtTrainer, training, cache, client
<1>1. CASE LoadDataset
  BY <1>1 DEF LoadDataset
<1>2. CASE Tokenize
  BY <1>2 DEF Tokenize
<1>3. CASE TooShort \/ Learn \/ TrainerDies
  BY <1>3 DEF TooShort, Learn, TrainerDies
<1>4. CASE Export
  BY <1>4 DEF Export
<1> QED
  BY <1>1, <1>2, <1>3, <1>4 DEF TrainerStep

\* The places a step of the updater, or the end of the editor, changes: each is emptied,
\* torn or filled from the place before it.
LEMMA UpdaterFlow ==
  ASSUME DeliveryInv,
         \/ StartDownload \/ EndDownload \/ CutDownload \/ DeleteLocal \/ MoveNew
         \/ WriteVersion \/ Reload \/ PluginRestarts
  PROVE  /\ UNCHANGED <<model, samples, trainer, learned>>
         /\ \/ incoming'.of = model /\ local' = local /\ engine' = engine
            \/ incoming'.of = incoming.of /\ local' = local /\ engine' = engine
            \/ incoming'.of \notin Nat /\ local' = incoming.of /\ engine' = engine
            \/ incoming'.of = incoming.of /\ local' \notin Nat /\ engine' = engine
            \/ incoming'.of = incoming.of /\ local' = local /\ engine' \in {None, local}
            \/ incoming'.of \notin Nat /\ local' = local /\ engine' \in {None, local, engine}
<1> USE DeliveryConstants
<1>1. UNCHANGED <<model, samples, trainer, learned>>
  BY DEF StartDownload, EndDownload, CutDownload, DeleteLocal, MoveNew, WriteVersion, Reload,
         PluginRestarts, training
<1>2. incoming \in [stamp : 0..stamp, of : Contents]
  BY DEF DeliveryInv
<1>3. CASE StartDownload
  BY <1>1, <1>3 DEF StartDownload
<1>4. CASE EndDownload
  BY <1>1, <1>2, <1>4 DEF EndDownload
<1>5. CASE CutDownload
  BY <1>1, <1>2, <1>5 DEF CutDownload
<1>6. CASE DeleteLocal
  BY <1>1, <1>6 DEF DeleteLocal
<1>7. CASE MoveNew
  BY <1>1, <1>7 DEF MoveNew, NoVersion
<1>8. CASE WriteVersion
  BY <1>1, <1>8 DEF WriteVersion
<1>9. CASE Reload
  BY <1>1, <1>9 DEF Reload, Loaded
<1>10. CASE PluginRestarts
  BY <1>1, <1>10 DEF PluginRestarts, Loaded, NoVersion
<1> QED
  BY <1>3, <1>4, <1>5, <1>6, <1>7, <1>8, <1>9, <1>10

\* A step of neither leaves the models alone.
LEMMA OtherFlow ==
  ASSUME DeliveryInv,
         \/ SubmitKnowledge \/ RunTrainingProcess \/ UNCHANGED vars
         \/ \E c \in Clients : AskStep(c)
  PROVE  /\ UNCHANGED <<engine, local, incoming, model>>
         /\ samples' \in Nat /\ samples <= samples'
         /\ HasRead' => HasRead /\ learned' = learned
<1> USE DEF HasRead, training, cache, client
<1>1. CASE SubmitKnowledge
  BY <1>1 DEF SubmitKnowledge, DeliveryInv, TypeOK
<1>2. CASE RunTrainingProcess
  BY <1>2 DEF RunTrainingProcess, DeliveryInv, TypeOK
<1>3. CASE UNCHANGED vars
  BY <1>3 DEF vars, DeliveryInv, TypeOK
<1>4. CASE \E c \in Clients : AskStep(c)
  BY <1>4 DEF AskStep, CheckCached, CheckHashing, StoreKey, StoreValue, DeliveryInv, TypeOK
<1> QED
  BY <1>1, <1>2, <1>3, <1>4

\* The types the comparisons need.
LEMMA Numbers ==
  ASSUME DeliveryInv
  PROVE  /\ samples \in Nat /\ learned \in Nat /\ learned <= samples
         /\ None \notin Nat /\ Torn \notin Nat
BY DeliveryConstants DEF DeliveryInv, TypeOK

LEMMA DownstreamStarts == Init => DownstreamInv
BY DeliveryConstants DEF Init, DownstreamInv, NoMore, HasRead, NoVersion

LEMMA DownstreamStays == DeliveryInv /\ DeliveryInv' /\ DownstreamInv /\ [Next]_vars => DownstreamInv'
<1> SUFFICES ASSUME DeliveryInv, DeliveryInv', DownstreamInv, [Next]_vars PROVE DownstreamInv'
  OBVIOUS
<1>1. /\ samples \in Nat /\ learned \in Nat /\ learned <= samples
      /\ None \notin Nat /\ Torn \notin Nat
  BY Numbers
<1>2. CASE TrainerStep \/ TrainerDies
  BY <1>1, <1>2, TrainerFlow DEF DownstreamInv, NoMore
<1>3. CASE \/ StartDownload \/ EndDownload \/ CutDownload \/ DeleteLocal \/ MoveNew
           \/ WriteVersion \/ Reload \/ PluginRestarts
  BY <1>1, <1>3, UpdaterFlow DEF DownstreamInv, NoMore, HasRead
<1>4. CASE \/ SubmitKnowledge \/ RunTrainingProcess \/ UNCHANGED vars
           \/ \E c \in Clients : AskStep(c)
  BY <1>1, <1>4, OtherFlow DEF DownstreamInv, NoMore
<1> QED
  BY <1>2, <1>3, <1>4, Steps

\* What the engine runs is a lower bound of everything that can still reach it ...
LEMMA AtLeastStarts ==
  ASSUME NEW n \in Nat
  PROVE  DownstreamInv /\ engine = n => AtLeast(n)
BY DEF DownstreamInv, AtLeast, NoMore

\* ... and stays one.
LEMMA AtLeastStays ==
  ASSUME NEW n \in Nat
  PROVE  DeliveryInv /\ AtLeast(n) /\ [Next]_vars => AtLeast(n)'
<1> SUFFICES ASSUME DeliveryInv, AtLeast(n), [Next]_vars PROVE AtLeast(n)'
  OBVIOUS
<1>1. /\ samples \in Nat /\ learned \in Nat /\ learned <= samples
      /\ None \notin Nat /\ Torn \notin Nat
  BY Numbers
<1>2. CASE TrainerStep \/ TrainerDies
  BY <1>1, <1>2, TrainerFlow DEF AtLeast, NoMore
<1>3. CASE \/ StartDownload \/ EndDownload \/ CutDownload \/ DeleteLocal \/ MoveNew
           \/ WriteVersion \/ Reload \/ PluginRestarts
  BY <1>1, <1>3, UpdaterFlow DEF AtLeast, NoMore, HasRead
<1>4. CASE \/ SubmitKnowledge \/ RunTrainingProcess \/ UNCHANGED vars
           \/ \E c \in Clients : AskStep(c)
  BY <1>1, <1>4, OtherFlow DEF AtLeast, NoMore
<1> QED
  BY <1>2, <1>3, <1>4, Steps

\* The engine runs a whole model or none, and never again one of fewer samples than it
\* has run, whatever is killed, cut off, replaced or cached meanwhile, and however many
\* samples, faults and other clients there are.
THEOREM KnowledgeAlwaysGrows == Spec => KnowledgeGrows
<1>1. Spec => [](DeliveryInv /\ DownstreamInv)
  BY DeliveryStarts, DeliveryStays, DownstreamStarts, DownstreamStays, PTL DEF Spec
<1>2. DeliveryInv => engine # Torn
  BY DeliveryConstants DEF DeliveryInv, TypeOK
<1>3. ASSUME NEW n \in 1..MaxSamples
      PROVE  Spec => [](engine = n => [](engine \in {None} \cup n..MaxSamples))
  <2>1. n \in Nat
    BY DeliveryConstants
  <2>2. DeliveryInv /\ AtLeast(n) => engine \in {None} \cup n..MaxSamples
    BY <2>1, DeliveryConstants DEF DeliveryInv, TypeOK, AtLeast, NoMore
  <2>3. DownstreamInv /\ engine = n => AtLeast(n)
    BY <2>1, AtLeastStarts
  <2>4. DeliveryInv /\ AtLeast(n) /\ [Next]_vars => AtLeast(n)'
    BY <2>1, AtLeastStays
  <2> QED
    BY <1>1, <2>2, <2>3, <2>4, PTL DEF Spec
<1>4. Spec => [](engine # Torn)
  BY <1>1, <1>2, PTL
<1> QED
  BY <1>3, <1>4 DEF KnowledgeGrows
=============================================================================
