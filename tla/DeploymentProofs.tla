-------------------------- MODULE DeploymentProofs --------------------------
(***************************************************************************)
(* Proofs about Deployment, for all archives, versions, names and ids and  *)
(* for any number of crashes and operations.                               *)
(*                                                                         *)
(* The composition implements its two components (DeploymentImplements),   *)
(* so that what holds of either alone holds of a deployment.               *)
(***************************************************************************)
EXTENDS Deployment, TLAPS

-----------------------------------------------------------------------------
(* The bootstrap *)

VersionFile == {Absent, TornFile} \cup {Stock(v) : v \in Versions}

\* While files are being replaced version.txt names an older version or none.
Unpacking == step \in {"extract", "properties", "version"}
Behind == \A v \in Versions : version = Stock(v) => v < supported

\* What an extraction has come to.
Progress ==
    /\ step = "download" => Behind
    /\ Unpacking => Behind /\ supported <= begun
    /\ step = "extract" => \A f \in Overridden \ todo : disk[f] = Stock(supported)
    /\ step \in {"properties", "version"} =>
          \A f \in Overridden : disk[f] = Stock(supported)

\* The executable is there once version.txt is, so no version that is not older
\* is ever downloaded over it.
Marked ==
    /\ version \in VersionFile
    /\ \A v \in Versions : version = Stock(v) => v <= begun /\ Exists(Executable)

Ready == step \in {"validate", "prepare", "run", "running"} => version = Stock(supported)

\* server.properties is rewritten only in the run that extracted it.
OwnProperties ==
    step = "properties" \/ (step = "extract" /\ tune /\ Properties \notin todo)
        => disk[Properties] = Stock(supported)

BootInv ==
    BootTypeOK /\ Progress /\ Marked /\ Ready /\ OwnProperties /\ VersionTruthful

LEMMA ContentsDiffer ==
    ASSUME NEW v \in Versions, NEW w \in Versions
    PROVE  /\ Stock(v) # Absent /\ Stock(v) # TornFile /\ Stock(v) # UserMade
           /\ Tuned(v) # Stock(w) /\ Tuned(v) # Absent
           /\ UserMade # Absent /\ TornFile # Absent /\ UserMade # TornFile
           /\ Stock(v) = Stock(w) => v = w
           /\ Stock(v).of = v
           /\ v \in Int /\ v > 0
  BY ArchiveAssumption
     DEF Stock, Tuned, Absent, TornFile, UserMade, Versions

LEMMA ContentsTypes ==
    /\ Absent \in Contents /\ TornFile \in Contents /\ UserMade \in Contents
    /\ \A v \in Versions : Stock(v) \in Contents /\ Tuned(v) \in Contents
  BY DEF Contents

LEMMA MembersTypes ==
    /\ Executable \in Members /\ Properties \in Members
    /\ Executable # Properties /\ Properties \notin Overridden
    /\ Overridden \subseteq Members /\ Kept \subseteq Members
  BY ArchiveAssumption DEF Members

LEMMA BootInitInv == BootInit => BootInv
  <1> SUFFICES ASSUME BootInit PROVE BootInv
    OBVIOUS
  <1>1. BootTypeOK
    BY ContentsTypes, ArchiveAssumption DEF BootInit, BootTypeOK, Versions, Steps
  <1>2. \A v \in Versions : version # Stock(v)
    BY ContentsDiffer DEF BootInit
  <1> QED
    BY <1>1, <1>2 DEF BootInit, BootInv, Progress, Unpacking, Marked, Ready,
       OwnProperties, VersionTruthful, VersionFile

LEMMA BootStep ==
    ASSUME BootInv, BootNext
    PROVE  BootInv'
  <1> USE DEF BootInv
  <1>a. /\ BootTypeOK
        /\ supported \in Versions
        /\ \A v \in Versions : v \in Int /\ 0 < v /\ v <= MaxVersion
        /\ MaxVersion \in Nat
        /\ begun \in 0 .. MaxVersion
    BY ArchiveAssumption DEF BootTypeOK, Versions
  <1>1. CASE Launch
    <2>1. BootTypeOK'
      BY <1>1 DEF Launch, GoTo, BootTypeOK, Steps
    <2>2. ASSUME step' = "download" PROVE Behind
      <3>1. NeedsInstall \/ NeedsUpdate
        BY <1>1, <2>2 DEF Launch, GoTo
      <3>2. ASSUME NEW v \in Versions, version = Stock(v) PROVE v < supported
        <4>1. NeedsUpdate
          BY <3>1, <3>2 DEF NeedsInstall, Marked
        <4>2. CurrentVersion = v
          BY <3>2, ContentsDiffer DEF CurrentVersion
        <4> QED
          BY <4>1, <4>2 DEF NeedsUpdate
      <3> QED
        BY <3>2 DEF Behind
    <2>3. ASSUME step' = "validate" PROVE version = Stock(supported)
      <3>1. UpToDate
        BY <1>1, <2>3 DEF Launch, GoTo
      <3>2. version # Absent
        BY <3>1, <1>a DEF UpToDate, CurrentVersion
      <3>3. PICK v \in Versions : version = Stock(v)
        BY <3>1, <3>2 DEF UpToDate, Marked, VersionFile
      <3>4. CurrentVersion = v
        BY <3>3, ContentsDiffer DEF CurrentVersion
      <3> QED
        BY <3>1, <3>3, <3>4 DEF UpToDate
    <2>4. step = "idle" /\ step' \in {"download", "validate"}
      BY <1>1 DEF Launch, GoTo
    <2>5. UNCHANGED <<supported, disk, version, config, begun, todo, tune>>
      BY <1>1 DEF Launch, GoTo
    <2> QED
      BY <2>1, <2>2, <2>3, <2>4, <2>5 DEF Progress, Behind, Unpacking, Marked, Ready,
         OwnProperties, VersionTruthful, Exists
  <1>2. CASE LaunchRefused
    BY <1>2 DEF LaunchRefused, bootVars, BootTypeOK, Progress, Behind, Unpacking, Marked,
       Ready, OwnProperties, VersionTruthful, Exists
  <1>3. CASE Download
    <2>1. BootTypeOK'
      BY <1>3, <1>a DEF Download, BootTypeOK, Steps
    <2>2. supported <= begun' /\ begun <= begun'
      BY <1>3, <1>a DEF Download
    <2>3. step' = "extract" /\ todo' = Members /\ Behind'
      BY <1>3 DEF Download, Progress, Behind
    <2>4. UNCHANGED <<supported, disk, version, config>>
      BY <1>3 DEF Download
    <2>5. Progress'
      BY <2>2, <2>3, <2>4, MembersTypes DEF Progress, Unpacking
    <2>6. Marked'
      <3>1. begun' \in Int
        BY <2>1, <1>a DEF BootTypeOK
      <3>2. \A v \in Versions : v <= begun => v <= begun'
        BY <3>1, <1>a, <2>2
      <3> QED
        BY <2>4, <3>2 DEF Marked, Exists
    <2> QED
      BY <2>1, <2>3, <2>5, <2>6, MembersTypes DEF Ready, OwnProperties, VersionTruthful
  <1>4. CASE \E f \in Members : Extract(f)
    <2> PICK f \in Members : Extract(f)
      BY <1>4
    <2>0. /\ step = "extract" /\ step' = "extract" /\ f \in todo /\ todo' = todo \ {f}
          /\ UNCHANGED <<supported, version, config, begun>>
      BY DEF Extract
    <2>1. BootTypeOK'
      BY <2>0, ContentsTypes DEF Extract, BootTypeOK
    <2>2. f \in Overridden => disk' = [disk EXCEPT ![f] = Stock(supported)]
      BY DEF Extract, Skipped
    <2>3. disk' = disk \/ disk' = [disk EXCEPT ![f] = Stock(supported)]
      BY DEF Extract
    <2>4. Progress'
      <3>1. \A g \in Overridden \ todo' : disk'[g] = Stock(supported)
        BY <2>0, <2>2, <2>3, MembersTypes DEF BootTypeOK, Progress
      <3> QED
        BY <2>0, <3>1 DEF Progress, Unpacking, Behind
    <2>5. Marked'
      <3>1. Exists(Executable) => Exists(Executable)'
        BY <2>3, <1>a, ContentsDiffer, MembersTypes DEF Exists, BootTypeOK
      <3> QED
        BY <2>0, <3>1 DEF Marked
    <2>6. OwnProperties'
      <3>1. ASSUME tune', Properties \notin todo' PROVE disk'[Properties] = Stock(supported)
        BY <3>1, <2>0, <2>3, MembersTypes DEF OwnProperties, Extract, BootTypeOK
      <3> QED
        BY <2>0, <3>1 DEF OwnProperties
    <2> QED
      BY <2>0, <2>1, <2>4, <2>5, <2>6 DEF Ready, VersionTruthful
  <1>5. CASE Extracted
    <2>0. /\ step = "extract" /\ todo = {} /\ step' \in {"properties", "version"}
          /\ step' = "properties" => tune
          /\ UNCHANGED <<supported, disk, version, config, begun, todo, tune>>
      BY <1>5 DEF Extracted, GoTo
    <2>1. BootTypeOK'
      BY <2>0 DEF BootTypeOK, Steps
    <2>2. Progress' /\ Marked' /\ Ready' /\ OwnProperties'
      BY <2>0 DEF Progress, Behind, Unpacking, Marked, Ready, OwnProperties, Exists
    <2>3. VersionTruthful'
      BY <2>0, <1>a DEF VersionTruthful, Progress, Behind, Unpacking
    <2> QED
      BY <2>1, <2>2, <2>3
  <1>6. CASE ModifyProperties
    <2>0. /\ step = "properties" /\ step' = "version"
          /\ disk' = [disk EXCEPT ![Properties] = Tuned(supported)]
          /\ UNCHANGED <<supported, version, config, begun, todo, tune>>
      BY <1>6 DEF ModifyProperties, GoTo
    <2>1. BootTypeOK'
      BY <2>0, ContentsTypes DEF BootTypeOK, Steps
    <2>2. /\ \A f \in Overridden : disk'[f] = disk[f]
          /\ Exists(Executable)' = Exists(Executable)
      BY <2>0, MembersTypes DEF BootTypeOK, Exists
    <2> QED
      BY <2>0, <2>1, <2>2, <1>a DEF Progress, Behind, Unpacking, Marked, Ready,
         OwnProperties, VersionTruthful
  <1>7. CASE WriteVersion
    <2>0. /\ step = "version" /\ step' = "validate" /\ version' = Stock(supported)
          /\ UNCHANGED <<supported, disk, config, begun, todo, tune>>
      BY <1>7 DEF WriteVersion, GoTo
    <2>1. BootTypeOK'
      BY <2>0, ContentsTypes DEF BootTypeOK, Steps
    <2>2. \A f \in Overridden : disk[f] = Stock(supported)
      BY <2>0 DEF Progress
    <2>3. supported <= begun
      BY <2>0 DEF Progress, Unpacking
    <2>4. Exists(Executable)
      BY <2>2, <1>a, ContentsDiffer, ArchiveAssumption DEF Exists
    <2>5. \A v \in Versions : version' = Stock(v) => v = supported
      BY <2>0, <1>a, ContentsDiffer
    <2>6. Marked'
      BY <2>0, <2>3, <2>4, <2>5, <1>a DEF Marked, VersionFile, Exists
    <2>7. VersionTruthful'
      BY <2>0, <2>2, <2>5 DEF VersionTruthful
    <2> QED
      BY <2>0, <2>1, <2>6, <2>7 DEF Progress, Unpacking, Ready, OwnProperties
  <1>8. CASE Validate \/ Prepare \/ Run
    <2>0. /\ step \in {"validate", "prepare", "run"} /\ step' \in {"prepare", "run", "running"}
          /\ UNCHANGED <<supported, disk, version, begun, todo, tune>>
      BY <1>8 DEF Validate, Prepare, Run, GoTo
    <2>1. BootTypeOK'
      <3>1. config' \in Contents
        BY <1>8, <1>a, ContentsTypes DEF Validate, Prepare, Run, Migrated, BootTypeOK
      <3> QED
        BY <2>0, <3>1 DEF BootTypeOK, Steps
    <2> QED
      BY <2>0, <2>1 DEF Progress, Unpacking, Marked, Ready, OwnProperties, VersionTruthful, Exists
  <1>9. CASE Stopped \/ Abort
    <2>0. /\ step' = "idle" /\ todo' = {} /\ tune' = TRUE
          /\ UNCHANGED <<supported, disk, version, config, begun>>
      BY <1>9 DEF Stopped, Abort, Over
    <2>1. BootTypeOK'
      BY <2>0 DEF BootTypeOK, Steps
    <2>2. VersionTruthful'
      BY <2>0, <1>a DEF VersionTruthful, Progress, Unpacking, Behind
    <2> QED
      BY <2>0, <2>1, <2>2 DEF Progress, Unpacking, Marked, Ready, OwnProperties, Exists
  <1>10. CASE CrashWriting
    <2>0. /\ step' = "idle" /\ todo' = {} /\ tune' = TRUE
          /\ UNCHANGED <<supported, begun>>
      BY <1>10 DEF CrashWriting, Over
    <2>1. BootTypeOK'
      BY <2>0, <1>10, ContentsTypes DEF CrashWriting, BootTypeOK, Steps
    <2>2. /\ version' = version \/ version' = TornFile
          /\ \/ step = "prepare" /\ disk' = disk
             \/ Unpacking /\ (disk' = disk \/ \E f \in Members : disk' = [disk EXCEPT ![f] = TornFile])
      BY <1>10, MembersTypes DEF CrashWriting, Unpacking, BootTypeOK
    <2>3. \A v \in Versions : version' = Stock(v) => version = Stock(v)
      BY <2>2, ContentsDiffer
    <2>4. Exists(Executable) => Exists(Executable)'
      BY <2>2, <1>a, ContentsDiffer, MembersTypes DEF Exists, BootTypeOK
    <2>5. Marked'
      BY <2>0, <2>2, <2>3, <2>4 DEF Marked, VersionFile
    <2>6. VersionTruthful'
      <3>1. CASE step = "prepare" /\ disk' = disk
        BY <3>1, <2>0, <2>3 DEF VersionTruthful
      <3>2. CASE Unpacking
        BY <3>2, <2>0, <2>3, <1>a DEF VersionTruthful, Progress, Behind
      <3> QED
        BY <2>2, <3>1, <3>2
    <2> QED
      BY <2>0, <2>1, <2>5, <2>6 DEF Progress, Unpacking, Ready, OwnProperties
  <1>11. CASE UserChange
    <2>0. step = "idle" /\ step' = "idle" /\ UNCHANGED <<todo, tune, begun>>
      BY <1>11 DEF UserChange, ChangePackage, EditFile, EditConfig, DeleteVersion
    <2>1. supported' \in Versions /\ config' \in Contents
      BY <1>11, <1>a, ContentsTypes
         DEF UserChange, ChangePackage, EditFile, EditConfig, DeleteVersion, BootTypeOK
    <2>2. version' = version \/ version' = Absent
      BY <1>11 DEF UserChange, ChangePackage, EditFile, EditConfig, DeleteVersion
    <2>3. disk' = disk \/ \E f \in Kept : disk' = [disk EXCEPT ![f] = UserMade]
      BY <1>11 DEF UserChange, ChangePackage, EditFile, EditConfig, DeleteVersion
    <2>4. BootTypeOK'
      BY <2>0, <2>1, <2>2, <2>3, ContentsTypes, MembersTypes DEF BootTypeOK
    <2>5. \A f \in Overridden : disk'[f] = disk[f]
      BY <2>3, MembersTypes, ArchiveAssumption DEF BootTypeOK
    <2>6. \A v \in Versions : version' = Stock(v) => version = Stock(v)
      BY <2>2, ContentsDiffer
    <2>7. Marked'
      BY <2>0, <2>2, <2>5, <2>6, ArchiveAssumption DEF Marked, Exists, VersionFile
    <2>8. VersionTruthful'
      BY <2>0, <2>5, <2>6 DEF VersionTruthful
    <2> QED
      BY <2>0, <2>4, <2>7, <2>8 DEF Progress, Unpacking, Ready, OwnProperties
  <1> QED
    BY BootNext, <1>1, <1>2, <1>3, <1>4, <1>5, <1>6, <1>7, <1>8, <1>9, <1>10, <1>11
       DEF BootNext, BootProgress

LEMMA BootStutter ==
    ASSUME BootInv, UNCHANGED bootVars
    PROVE  BootInv'
  BY DEF bootVars, BootInv, BootTypeOK, Progress, Behind, Unpacking, Marked,
     Ready, OwnProperties, VersionTruthful, Exists

\* The server that runs is whole and of the supported version, in every
\* history of interrupted installs and updates (base.py:192-255).
THEOREM BootServesSupported == BootSpec => []ServesSupported
  <1>1. BootInv /\ [BootNext]_bootVars => BootInv'
    BY BootStep, BootStutter
  <1>2. BootInv => ServesSupported
    <2> SUFFICES ASSUME BootInv, step = "running", begun <= supported,
                        NEW f \in Overridden
                 PROVE  disk[f] = Stock(supported)
      BY DEF ServesSupported
    <2> QED
      BY DEF BootInv, Ready, VersionTruthful, BootTypeOK
  <1> QED
    BY BootInitInv, <1>1, <1>2, PTL DEF BootSpec

\* version.txt tells the truth about the files it stands for (base.py:157).
THEOREM BootVersionTruthful == BootSpec => []VersionTruthful
  <1>1. BootInv /\ [BootNext]_bootVars => BootInv'
    BY BootStep, BootStutter
  <1>2. BootInv => VersionTruthful
    BY DEF BootInv
  <1> QED
    BY BootInitInv, <1>1, <1>2, PTL DEF BootSpec

LEMMA UserFilesStep ==
    ASSUME BootInv, BootNext, NEW f \in Kept, disk[f] = UserMade
    PROVE  disk'[f] = UserMade
  <1>1. /\ supported \in Versions /\ disk \in [Members -> Contents] /\ f \in Members
        /\ f \notin Overridden
    BY MembersTypes, ArchiveAssumption DEF BootInv, BootTypeOK
  <1>2. Exists(f)
    BY <1>1, ContentsDiffer DEF Exists
  <1>3. Skipped(f)
    BY <1>1, <1>2 DEF Skipped
  <1>4. CASE \E g \in Members : Extract(g)
    BY <1>4, <1>1, <1>3 DEF Extract
  <1>5. step = "properties" => f # Properties
    BY <1>1, ContentsDiffer DEF BootInv, OwnProperties
  <1>6. CASE ModifyProperties
    BY <1>6, <1>1, <1>5 DEF ModifyProperties
  <1>7. CASE CrashWriting
    BY <1>7, <1>1, <1>3, <1>5 DEF CrashWriting
  <1>8. CASE UserChange
    BY <1>8, <1>1 DEF UserChange, ChangePackage, EditFile, EditConfig, DeleteVersion
  <1>9. CASE \/ Launch \/ LaunchRefused \/ Download \/ Extracted \/ WriteVersion \/ Validate
             \/ Prepare \/ Run \/ Stopped \/ Abort
    BY <1>9 DEF Launch, LaunchRefused, Download, Extracted, WriteVersion, Validate,
       Prepare, Run, Stopped, Abort, bootVars
  <1> QED
    BY <1>4, <1>6, <1>7, <1>8, <1>9 DEF BootNext, BootProgress

\* No install or update writes to a settings file that the user has edited
\* (base.py:132-140).
THEOREM BootUserFilesKept == BootSpec => UserFilesKept
  <1>1. BootInv /\ [BootNext]_bootVars => BootInv'
    BY BootStep, BootStutter
  <1>2. BootInv /\ [BootNext]_bootVars =>
            [\A f \in Kept : disk[f] = UserMade => disk'[f] = UserMade]_bootVars
    BY UserFilesStep
  <1> QED
    BY BootInitInv, <1>1, <1>2, PTL DEF BootSpec, UserFilesKept

-----------------------------------------------------------------------------
(* The ban list *)

\* The file holds whole seconds, and no two entries that match.
FileInv ==
    /\ \A b \in file.bans : ToSeconds(b) = b
    /\ \A a, b \in file.bans : a # b => ~MatchesTarget(a.target, b.target)

\* A ban that stands is in the file, unless memory has changed without a save, ...
StandsOnDisk ==
    ~unsaved => \A s \in standing :
                   ~Expired(ToSeconds(s), now) => ToSeconds(s) \in file.bans

\* ... and in memory while the server is up: it, or what the file kept of it.
StandsInMemory ==
    up => \A s \in standing :
             ~Expired(ToSeconds(s), now) => \E b \in entries : ToSeconds(b) = ToSeconds(s)

BanInv ==
    /\ BanTypeOK /\ FileInv /\ StandsOnDisk /\ StandsInMemory
    /\ EntriesDistinct /\ DiskCurrent
    /\ ~up => entries = {}

LEMMA TimesFacts ==
    /\ Times \subseteq Int
    /\ \A x \in Times : x >= 2 /\ x <= MaxTime
    /\ Forever \in Int /\ Forever = 0
  BY MaxTimeAssumption DEF Times, FirstTime, Forever

LEMMA Halving ==
    ASSUME NEW x \in Int, x = 0 \/ x >= 2
    PROVE  /\ x - (x % 2) \in Int /\ x - (x % 2) <= x
           /\ x - (x % 2) = 0 <=> x = 0
           /\ x >= 2 => x - (x % 2) >= 2
           /\ (x - (x % 2)) - ((x - (x % 2)) % 2) = x - (x % 2)
  BY Z3

\* What the file keeps of a ban: its target, an end no later, and forever.
LEMMA Seconds ==
    ASSUME NEW b \in Bans
    PROVE  /\ ToSeconds(b) \in Bans
           /\ ToSeconds(b).target = b.target
           /\ ToSeconds(ToSeconds(b)) = ToSeconds(b)
           /\ \A time \in Int : Expired(b, time) => Expired(ToSeconds(b), time)
  <1> DEFINE x == b.expires
             y == x - (x % 2)
  <1>0. x = Forever \/ x \in Times
    BY DEF Bans
  <1>1. x \in Int /\ (x = 0 \/ x >= 2) /\ x <= MaxTime
    <2>1. CASE x = Forever
      BY <2>1, TimesFacts, MaxTimeAssumption
    <2>2. CASE x \in Times
      BY <2>2, TimesFacts
    <2> QED
      BY <1>0, <2>1, <2>2
  <1>2. /\ y \in Int /\ y <= x /\ (y = 0 <=> x = 0) /\ (x >= 2 => y >= 2)
        /\ y - (y % 2) = y
    BY <1>1, Halving
  <1>3. b = [target |-> b.target, expires |-> x] /\ b.target \in Targets
    BY DEF Bans
  <1> HIDE DEF x
  <1>4. ToSeconds(b) = [target |-> b.target, expires |-> y]
    BY <1>3 DEF ToSeconds
  <1> HIDE DEF y
  <1>5. y \in {Forever} \cup Times
    BY <1>1, <1>2, MaxTimeAssumption DEF Times, FirstTime, Forever
  <1>6. ToSeconds(b) \in Bans
    BY <1>3, <1>4, <1>5 DEF Bans
  <1>7. ToSeconds(ToSeconds(b)) = ToSeconds(b)
    BY <1>2, <1>4 DEF ToSeconds
  <1>8. \A time \in Int : Expired(b, time) => Expired(ToSeconds(b), time)
    BY <1>1, <1>2, <1>3, <1>4 DEF Expired, Forever
  <1> QED
    BY <1>4, <1>6, <1>7, <1>8

LEMMA MatchFacts ==
    ASSUME NEW s, NEW t
    PROVE  /\ MatchesTarget(s, s)
           /\ MatchesTarget(s, t) => MatchesTarget(t, s)
  BY DEF MatchesTarget, SameId

LEMMA BanInitInv == BanInit => BanInv
  <1> SUFFICES ASSUME BanInit PROVE BanInv
    OBVIOUS
  <1>1. BanTypeOK
    <2>1. now \in Times
      BY MaxTimeAssumption DEF BanInit, FirstTime, Times
    <2>2. file \in [kind : {"absent", "torn", "whole"}, bans : SUBSET Bans]
      BY DEF BanInit, NoFile
    <2> QED
      BY <2>1, <2>2 DEF BanInit, BanTypeOK
  <1> QED
    BY <1>1 DEF BanInit, BanInv, NoFile, FileInv, StandsOnDisk, StandsInMemory,
       EntriesDistinct, DiskCurrent, Serialised, Unexpired

\* Whatever save() does, the file stays well formed, and if it succeeds the file
\* holds what memory holds.
LEMMA SaveInv ==
    ASSUME BanInv, BanTypeOK', up', now' = now, EntriesDistinct', StandsInMemory',
           NEW outcome \in SaveOutcomes, Save(entries', outcome)
    PROVE  FileInv' /\ StandsOnDisk' /\ DiskCurrent'
  <1>1. CASE outcome = "written"
    <2>1. file'.bans = Serialised(entries')
      BY <1>1 DEF Save, Whole
    <2>2. \A b \in entries' : b \in Bans
      BY DEF BanTypeOK
    <2>3. \A f \in file'.bans : \E b \in entries' : f = ToSeconds(b)
      BY <2>1 DEF Serialised
    <2>4. FileInv'
      <3>1. \A f \in file'.bans : ToSeconds(f) = f
        BY <2>2, <2>3, Seconds
      <3>2. ASSUME NEW f \in file'.bans, NEW g \in file'.bans, f # g
            PROVE  ~MatchesTarget(f.target, g.target)
        <4>1. PICK a \in entries' : f = ToSeconds(a)
          BY <2>3
        <4>2. PICK b \in entries' : g = ToSeconds(b)
          BY <2>3
        <4>3. a # b /\ f.target = a.target /\ g.target = b.target
          BY <3>2, <4>1, <4>2, <2>2, Seconds
        <4> QED
          BY <4>3 DEF EntriesDistinct
      <3> QED
        BY <3>1, <3>2 DEF FileInv
    <2>5. StandsOnDisk'
      BY <2>1 DEF StandsOnDisk, StandsInMemory, Serialised
    <2>6. DiskCurrent'
      BY <2>1 DEF DiskCurrent, Unexpired
    <2> QED
      BY <2>4, <2>5, <2>6
  <1>2. CASE outcome # "written"
    <2>1. unsaved'
      BY <1>2 DEF Save
    <2>2. file' = file \/ file'.bans = {}
      BY <1>2 DEF Save, SaveOutcomes, Torn
    <2> QED
      BY <2>1, <2>2 DEF StandsOnDisk, DiskCurrent, BanInv, FileInv
  <1> QED
    BY <1>1, <1>2

LEMMA SaveTypes ==
    ASSUME NEW bans \in SUBSET Bans, NEW outcome \in SaveOutcomes, Save(bans, outcome),
           BanTypeOK
    PROVE  /\ file' \in [kind : {"absent", "torn", "whole"}, bans : SUBSET Bans]
           /\ unsaved' \in BOOLEAN
  <1>1. Serialised(bans) \subseteq Bans
    BY Seconds DEF Serialised
  <1> QED
    BY <1>1 DEF Save, SaveOutcomes, Whole, Torn, BanTypeOK

\* Entries that are dropped as expired are expired in the file as well.
LEMMA DropExpired ==
    ASSUME BanInv, up
    PROVE  /\ Unexpired(entries, now) \subseteq Bans
           /\ \A s \in standing : ~Expired(ToSeconds(s), now) =>
                 \E b \in Unexpired(entries, now) : ToSeconds(b) = ToSeconds(s)
           /\ ~unsaved =>
                 /\ Serialised(Unexpired(entries, now)) \subseteq file.bans
                 /\ Unexpired(file.bans, now) \subseteq Serialised(Unexpired(entries, now))
  <1>1. entries \subseteq Bans /\ now \in Int
    BY TimesFacts DEF BanInv, BanTypeOK
  <1>2. \A b \in entries : ~Expired(ToSeconds(b), now) => b \in Unexpired(entries, now)
    BY <1>1, Seconds DEF Unexpired
  <1>3. \A s \in standing : ~Expired(ToSeconds(s), now) =>
                 \E b \in Unexpired(entries, now) : ToSeconds(b) = ToSeconds(s)
    BY <1>2 DEF BanInv, StandsInMemory
  <1>4. Unexpired(entries, now) \subseteq entries
    BY DEF Unexpired
  <1>5. ASSUME ~unsaved
        PROVE  /\ Serialised(Unexpired(entries, now)) \subseteq file.bans
               /\ Unexpired(file.bans, now) \subseteq Serialised(Unexpired(entries, now))
    <2>1. Serialised(entries) \subseteq file.bans /\ Unexpired(file.bans, now) \subseteq Serialised(entries)
      BY <1>5 DEF BanInv, DiskCurrent
    <2>2. Serialised(Unexpired(entries, now)) \subseteq file.bans
      BY <2>1, <1>4 DEF Serialised
    <2>3. ASSUME NEW f \in Unexpired(file.bans, now)
          PROVE  f \in Serialised(Unexpired(entries, now))
      <3>1. PICK b \in entries : f = ToSeconds(b)
        BY <2>1 DEF Serialised
      <3>2. b \in Unexpired(entries, now)
        BY <1>2, <3>1 DEF Unexpired
      <3> QED
        BY <3>1, <3>2 DEF Serialised
    <2> QED
      BY <2>2, <2>3
  <1> QED
    BY <1>1, <1>3, <1>4, <1>5

\* addBan on the entries, or on those /ban has left.
LEMMA AddBanInv ==
    ASSUME BanInv, up, up' = up, now' = now,
           NEW live \in SUBSET entries,
           \A s \in standing : ~Expired(ToSeconds(s), now) =>
               \E b \in live : ToSeconds(b) = ToSeconds(s),
           NEW t \in Targets, NEW expires \in {Forever} \cup Times,
           NEW outcome \in SaveOutcomes, AddBanTo(live, t, expires, outcome)
    PROVE  BanInv'
  <1> DEFINE b == [target |-> t, expires |-> expires]
  <1>1. b \in Bans /\ b.target = t
    BY DEF Bans
  <1>2. /\ entries \subseteq Bans /\ standing \subseteq Bans /\ now \in Times
        /\ BanTypeOK
    BY DEF BanInv, BanTypeOK
  <1>3. /\ entries' = WithBan(live, b) /\ standing' = WithBan(standing, b)
        /\ Save(WithBan(live, b), outcome)
    BY DEF AddBanTo
  <1> HIDE DEF b
  <1>4. /\ b \in entries'
        /\ \A c \in live : ~MatchesTarget(c.target, t) => c \in entries'
        /\ \A c \in entries' : c = b \/ (c \in live /\ ~MatchesTarget(c.target, t))
    BY <1>1, <1>3 DEF WithBan, Matching
  <1>5. \A c \in standing' : c = b \/ (c \in standing /\ ~MatchesTarget(c.target, t))
    BY <1>1, <1>3 DEF WithBan, Matching
  <1>6. WithBan(live, b) \in SUBSET Bans /\ WithBan(standing, b) \in SUBSET Bans
    BY <1>1, <1>2 DEF WithBan
  <1>7. BanTypeOK'
    BY <1>2, <1>3, <1>6, SaveTypes DEF BanTypeOK
  <1>8. EntriesDistinct'
    <2> SUFFICES ASSUME NEW c \in entries', NEW d \in entries', c # d
                 PROVE  ~MatchesTarget(c.target, d.target)
      BY DEF EntriesDistinct
    <2>1. CASE c = b
      BY <2>1, <1>1, <1>4, MatchFacts
    <2>2. CASE d = b
      BY <2>2, <1>1, <1>4, MatchFacts
    <2>3. CASE c # b /\ d # b
      BY <2>3, <1>4 DEF BanInv, EntriesDistinct
    <2> QED
      BY <2>1, <2>2, <2>3
  <1>9. StandsInMemory'
    <2> SUFFICES ASSUME NEW s \in standing', ~Expired(ToSeconds(s), now)
                 PROVE  \E c \in entries' : ToSeconds(c) = ToSeconds(s)
      BY DEF StandsInMemory
    <2>1. CASE s = b
      BY <2>1, <1>4
    <2>2. CASE s # b
      <3>1. s \in standing /\ ~MatchesTarget(s.target, t)
        BY <2>2, <1>5
      <3>2. PICK c \in live : ToSeconds(c) = ToSeconds(s)
        BY <3>1
      <3>3. c.target = s.target
        BY <3>1, <3>2, <1>2, Seconds
      <3> QED
        BY <3>1, <3>2, <3>3, <1>4
    <2> QED
      BY <2>1, <2>2
  <1>10. FileInv' /\ StandsOnDisk' /\ DiskCurrent'
    BY <1>3, <1>7, <1>8, <1>9, SaveInv
  <1> QED
    BY <1>7, <1>8, <1>9, <1>10 DEF BanInv

LEMMA RemoveBanInv ==
    ASSUME BanInv, NEW t \in Targets, NEW outcome \in SaveOutcomes, RemoveBan(t, outcome)
    PROVE  BanInv'
  <1>1. PICK b \in Matching(entries, t) : entries' = entries \ {b} /\ Save(entries \ {b}, outcome)
    BY DEF RemoveBan
  <1>2. up /\ up' /\ up' = up /\ now' = now /\ standing' = standing \ Matching(standing, t)
    BY DEF RemoveBan
  <1>3. entries \subseteq Bans /\ standing \subseteq Bans /\ BanTypeOK
    BY DEF BanInv, BanTypeOK
  <1>4. b \in entries /\ MatchesTarget(b.target, t)
    BY DEF Matching
  <1>5. entries \ {b} \in SUBSET Bans
    BY <1>3
  <1>6. BanTypeOK'
    BY <1>1, <1>2, <1>3, <1>5, SaveTypes DEF BanTypeOK
  <1>7. EntriesDistinct'
    BY <1>1 DEF BanInv, EntriesDistinct
  <1>8. StandsInMemory'
    <2> SUFFICES ASSUME NEW s \in standing', ~Expired(ToSeconds(s), now)
                 PROVE  \E c \in entries' : ToSeconds(c) = ToSeconds(s)
      BY <1>2 DEF StandsInMemory
    <2>1. s \in standing /\ ~MatchesTarget(s.target, t)
      BY <1>2 DEF Matching
    <2>2. PICK c \in entries : ToSeconds(c) = ToSeconds(s)
      BY <2>1, <1>2 DEF BanInv, StandsInMemory
    <2>3. c.target = s.target
      BY <2>1, <2>2, <1>3, Seconds
    <2> QED
      BY <2>1, <2>2, <2>3, <1>1, <1>4
  <1>9. FileInv' /\ StandsOnDisk' /\ DiskCurrent'
    BY <1>1, <1>2, <1>6, <1>7, <1>8, SaveInv
  <1> QED
    BY <1>2, <1>6, <1>7, <1>8, <1>9 DEF BanInv

\* isBanned, and a /ban that finds the player banned.
LEMMA DropInv ==
    ASSUME BanInv, up, entries' = Unexpired(entries, now),
           UNCHANGED <<up, file, now, standing, unsaved>>
    PROVE  BanInv'
  <1>1. BanTypeOK' /\ FileInv' /\ StandsOnDisk'
    BY DropExpired DEF BanInv, BanTypeOK, FileInv, StandsOnDisk
  <1>2. StandsInMemory' /\ DiskCurrent'
    BY DropExpired DEF StandsInMemory, DiskCurrent
  <1>3. EntriesDistinct'
    BY DEF BanInv, EntriesDistinct, Unexpired
  <1> QED
    BY <1>1, <1>2, <1>3 DEF BanInv

\* A changed date changes no target: what matched nothing still does, and the
\* history's ban of that target gets the date its entry gets.
LEMMA SetExpirationInv ==
    ASSUME BanInv, NEW b \in entries, NEW expires \in {Forever} \cup Times,
           SetExpiration(b, expires)
    PROVE  BanInv'
  <1> DEFINE t == b.target
             Dated(c) == IF c.target = t THEN [c EXCEPT !.expires = expires] ELSE c
  <1>1. /\ entries' = {Dated(c) : c \in entries} /\ standing' = {Dated(c) : c \in standing}
        /\ up /\ up' /\ unsaved' /\ unsaved' = TRUE /\ UNCHANGED <<up, file, now>>
    BY DEF SetExpiration, Redated
  <1>2. BanTypeOK /\ entries \subseteq Bans /\ standing \subseteq Bans
    BY DEF BanInv, BanTypeOK
  <1>3. \A c \in Bans :
           /\ Dated(c) \in Bans /\ Dated(c).target = c.target
           /\ c.target = t => Dated(c) = [target |-> t, expires |-> expires]
           /\ c.target # t => Dated(c) = c
    BY DEF Bans
  <1> HIDE DEF Dated
  <1>4. BanTypeOK'
    BY <1>1, <1>2, <1>3 DEF BanTypeOK
  <1>5. EntriesDistinct'
    <2> SUFFICES ASSUME NEW c \in entries, NEW d \in entries, Dated(c) # Dated(d)
                 PROVE  ~MatchesTarget(Dated(c).target, Dated(d).target)
      BY <1>1 DEF EntriesDistinct
    <2>1. ~MatchesTarget(c.target, d.target)
      BY DEF BanInv, EntriesDistinct
    <2> QED
      BY <2>1, <1>2, <1>3
  <1>6. StandsInMemory'
    <2> SUFFICES ASSUME NEW s \in standing, ~Expired(ToSeconds(Dated(s)), now)
                 PROVE  \E c \in entries : ToSeconds(Dated(c)) = ToSeconds(Dated(s))
      BY <1>1 DEF StandsInMemory
    <2>1. CASE s.target = t
      BY <2>1, <1>2, <1>3
    <2>2. CASE s.target # t
      <3>1. PICK c \in entries : ToSeconds(c) = ToSeconds(s)
        BY <2>2, <1>1, <1>2, <1>3 DEF BanInv, StandsInMemory
      <3>2. c.target = s.target
        BY <3>1, <1>2, Seconds
      <3> QED
        BY <2>2, <3>1, <3>2, <1>2, <1>3
    <2> QED
      BY <2>1, <2>2
  <1>7. FileInv' /\ StandsOnDisk' /\ DiskCurrent'
    BY <1>1 DEF BanInv, FileInv, StandsOnDisk, DiskCurrent
  <1> QED
    BY <1>1, <1>4, <1>5, <1>6, <1>7 DEF BanInv

LEMMA BanStep ==
    ASSUME BanInv, BanNext
    PROVE  BanInv'
  <1>0. /\ BanTypeOK /\ entries \subseteq Bans /\ standing \subseteq Bans
        /\ file.bans \subseteq Bans /\ now \in Int
    BY TimesFacts DEF BanInv, BanTypeOK
  <1>1. CASE StartServer("read")
    <2>0. /\ up' = TRUE /\ entries' = file.bans /\ unsaved' = FALSE
          /\ standing' = IF unsaved THEN file.bans ELSE standing
          /\ file' = file /\ now' = now
      BY <1>1 DEF StartServer, Loaded
    <2>1. \A f \in file.bans : ToSeconds(f) = f
      BY DEF BanInv, FileInv
    <2>2. BanTypeOK'
      BY <2>0, <1>0 DEF BanTypeOK
    <2>3. FileInv' /\ EntriesDistinct'
      BY <2>0 DEF BanInv, FileInv, EntriesDistinct
    <2>4. ASSUME NEW s \in standing', ~Expired(ToSeconds(s), now)
          PROVE  ToSeconds(s) \in file.bans
      BY <2>0, <2>1, <2>4 DEF BanInv, StandsOnDisk
    <2>5. StandsOnDisk' /\ StandsInMemory'
      BY <2>0, <2>1, <2>4 DEF StandsOnDisk, StandsInMemory
    <2>6. Serialised(file.bans) = file.bans
      BY <2>1 DEF Serialised
    <2>7. DiskCurrent'
      BY <2>0, <2>6 DEF DiskCurrent, Unexpired
    <2> QED
      BY <2>0, <2>2, <2>3, <2>5, <2>7 DEF BanInv
  <1>5. CASE StartServer("unread")
    <2>1. /\ up' = TRUE /\ entries' = {} /\ standing' = {} /\ unsaved' = TRUE
          /\ UNCHANGED <<file, now>>
      BY <1>5 DEF StartServer, Loaded
    <2>2. BanTypeOK' /\ FileInv' /\ EntriesDistinct'
      BY <2>1 DEF BanInv, BanTypeOK, FileInv, EntriesDistinct
    <2>3. StandsOnDisk' /\ StandsInMemory' /\ DiskCurrent'
      BY <2>1 DEF StandsOnDisk, StandsInMemory, DiskCurrent
    <2> QED
      BY <2>1, <2>2, <2>3 DEF BanInv
  <1>2. CASE ServerGone
    BY <1>2 DEF ServerGone, BanInv, BanTypeOK, FileInv, StandsOnDisk, StandsInMemory,
       EntriesDistinct, DiskCurrent
  <1>3. CASE Tick
    <2>0. now' = now + 1 /\ now < MaxTime /\ UNCHANGED <<up, entries, file, standing, unsaved>>
      BY <1>3 DEF Tick
    <2>1. BanTypeOK'
      BY <2>0, MaxTimeAssumption DEF BanInv, BanTypeOK, Times, FirstTime
    <2>2. \A b \in Bans : Expired(b, now) => Expired(b, now')
      <3>1. \A b \in Bans : b.expires = Forever \/ b.expires \in Int
        BY TimesFacts DEF Bans
      <3> QED
        BY <2>0, <1>0, <3>1 DEF Expired
    <2>3. \A s \in standing : Expired(ToSeconds(s), now) => Expired(ToSeconds(s), now')
      BY <2>2, <1>0, Seconds
    <2>4. Unexpired(file.bans, now') \subseteq Unexpired(file.bans, now)
      BY <2>2, <1>0 DEF Unexpired
    <2>5. DiskCurrent'
      BY <2>0, <2>4 DEF BanInv, DiskCurrent
    <2>6. StandsOnDisk' /\ StandsInMemory'
      BY <2>0, <2>3 DEF BanInv, StandsOnDisk, StandsInMemory
    <2> QED
      BY <2>0, <2>1, <2>5, <2>6 DEF BanInv, FileInv, EntriesDistinct
  <1>4. CASE BanOperation
    <2>1. ASSUME NEW t \in Targets, NEW outcome \in SaveOutcomes,
                 NEW expires \in {Forever} \cup Times, AddBan(t, expires, outcome)
          PROVE  BanInv'
      <3>1. \A s \in standing : ~Expired(ToSeconds(s), now) =>
                \E b \in entries : ToSeconds(b) = ToSeconds(s)
        BY <2>1 DEF AddBan, BanInv, StandsInMemory
      <3>2. entries \in SUBSET entries
        OBVIOUS
      <3> QED
        BY <2>1, <3>1, <3>2, AddBanInv DEF AddBan
    <2>2. ASSUME NEW t \in Targets, NEW outcome \in SaveOutcomes, BanCommand(t, outcome)
          PROVE  BanInv'
      <3> DEFINE live == Unexpired(entries, now)
      <3>0. up /\ up' = up /\ now' = now
        BY <2>2 DEF BanCommand
      <3>1. CASE entries' = live /\ UNCHANGED <<file, standing, unsaved>>
        BY <3>0, <3>1, DropInv
      <3>2. CASE AddBanTo(live, t, Forever, outcome)
        <4>1. live \in SUBSET entries
          BY DEF Unexpired
        <4>2. \A s \in standing : ~Expired(ToSeconds(s), now) =>
                  \E b \in live : ToSeconds(b) = ToSeconds(s)
          BY <3>0, DropExpired
        <4> HIDE DEF live
        <4> QED
          BY <3>0, <3>2, <4>1, <4>2, AddBanInv
      <3> QED
        BY <2>2, <3>1, <3>2 DEF BanCommand
    <2>3. ASSUME NEW t \in Targets, IsBanned(t) PROVE BanInv'
      BY <2>3, DropInv DEF IsBanned
    <2>4. ASSUME NEW n \in Names, NEW outcome \in SaveOutcomes, PardonCommand(n, outcome)
          PROVE  BanInv'
      <3>1. [name |-> n, uuid |-> NoId, xuid |-> NoId] \in Targets
        BY DEF Targets
      <3> QED
        BY <2>4, <3>1, RemoveBanInv DEF PardonCommand
    <2>5. ASSUME NEW b \in entries, NEW expires \in {Forever} \cup Times, SetExpiration(b, expires)
          PROVE  BanInv'
      BY <2>5, SetExpirationInv
    <2> QED
      BY <1>4, <2>1, <2>2, <2>3, <2>4, <2>5, RemoveBanInv DEF BanOperation
  <1> QED
    BY <1>1, <1>2, <1>3, <1>4, <1>5 DEF BanNext, Starts, LoadOutcomes

LEMMA BanStutter ==
    ASSUME BanInv, UNCHANGED banVars
    PROVE  BanInv'
  BY DEF banVars, BanInv, BanTypeOK, FileInv, StandsOnDisk, StandsInMemory,
     EntriesDistinct, DiskCurrent

LEMMA BanInvariant == BanSpec => []BanInv
  <1>1. BanInv /\ [BanNext]_banVars => BanInv'
    BY BanStep, BanStutter
  <1> QED
    BY BanInitInv, <1>1, PTL DEF BanSpec

\* No two entries ever match one another (ban_list.h:54, player_ban_list.cpp:64).
THEOREM ListEntriesDistinct == BanSpec => []EntriesDistinct
  <1>1. BanInv => EntriesDistinct
    BY DEF BanInv
  <1> QED
    BY BanInvariant, <1>1, PTL

\* A ban that nothing has lifted works until it ends, across restarts, crashes and
\* changes of its date, but for a restart after a failed save or an unsaved change
\* of a date, or one that cannot read the file (ban_list.h:96, 129, 137, 180;
\* ban_entry.h:74).
THEOREM ListBansHold == BanSpec => []BansHold
  <1>1. BanInv => BansHold
    <2> SUFFICES ASSUME BanInv, up, NEW s \in standing, ~Expired(ToSeconds(s), now)
                 PROVE  Matching(entries, s.target) # {}
      BY DEF BansHold
    <2>1. PICK b \in entries : ToSeconds(b) = ToSeconds(s)
      BY DEF BanInv, StandsInMemory
    <2>2. b.target = s.target
      BY <2>1, Seconds DEF BanInv, BanTypeOK
    <2> QED
      BY <2>2, MatchFacts DEF Matching
  <1> QED
    BY BanInvariant, <1>1, PTL

\* Once a save has succeeded after every failed save, unread file and changed date,
\* the file and memory differ by expired bans at most (ban_list.h:82, 96, 137).
THEOREM ListDiskCurrent == BanSpec => []DiskCurrent
  <1>1. BanInv => DiskCurrent
    BY DEF BanInv
  <1> QED
    BY BanInvariant, <1>1, PTL

-----------------------------------------------------------------------------
(* The composition *)

\* A deployment is a bootstrap and a ban list: each of its steps is a step of
\* either, of both (the start and the end of the server) or of neither.
THEOREM DeploymentImplements == DeploySpec => BootSpec /\ BanSpec
  <1>1. DeployInit => BootInit /\ BanInit
    BY DEF DeployInit
  <1>2. [DeployNext]_deployVars => [BootNext]_bootVars /\ [BanNext]_banVars
    <2>1. CASE RunServer
      BY <2>1 DEF RunServer, BootNext, BanNext, Starts, LoadOutcomes
    <2>2. CASE ServerEnds
      BY <2>2 DEF ServerEnds, BootNext, BanNext
    <2>3. CASE Boots
      BY <2>3 DEF Boots, BootNext
    <2>4. CASE Interrupted
      BY <2>4 DEF Interrupted, BootNext
    <2>5. CASE Operates
      BY <2>5 DEF Operates, BanNext
    <2>6. CASE TimePasses
      BY <2>6 DEF TimePasses, BanNext
    <2>7. CASE UNCHANGED deployVars
      BY <2>7 DEF deployVars
    <2> QED
      BY <2>1, <2>2, <2>3, <2>4, <2>5, <2>6, <2>7 DEF DeployNext
  <1> QED
    BY <1>1, <1>2, PTL DEF DeploySpec, BootSpec, BanSpec

\* What the runs check of a deployment, for every instance of it, with the files
\* that cannot be read and the entries changed without a save among its steps.
THEOREM DeploymentSafe ==
    DeploySpec => /\ []ServesSupported /\ []VersionTruthful /\ UserFilesKept
                  /\ []EntriesDistinct /\ []BansHold /\ []DiskCurrent
  BY DeploymentImplements, BootServesSupported, BootVersionTruthful, BootUserFilesKept,
     ListEntriesDistinct, ListBansHold, ListDiskCurrent, PTL

=============================================================================
