------------------------------ MODULE Bootstrap ------------------------------
(***************************************************************************)
(* The command line bootstrap (endstone/cli/base.py): it installs or        *)
(* updates the dedicated server in its folder, prepares the configuration  *)
(* and runs the server.  Any step may be cut short by a crash or a kill    *)
(* and is simply run again by the next launch, on the files left behind.   *)
(*                                                                         *)
(*   supported   minecraft_version of the installed Endstone package       *)
(*   disk        the files of the archive in the server folder             *)
(*   version     version.txt, written last                                 *)
(*   config      endstone.toml                                             *)
(*   step        where run() is                                            *)
(*   todo        the archive members _download has yet to extract          *)
(*   tune        should_modify_server_properties                           *)
(*                                                                         *)
(* Overridden are the archive members that override_patterns name (the     *)
(* executable among them), Kept the others (server.properties among them). *)
(* Files are written in place after a truncation, so a crash leaves a torn *)
(* file.  A Version is its rank; 0 stands for Version("0.0.0").            *)
(***************************************************************************)
EXTENDS Integers, FiniteSets

CONSTANTS
    Executable, Properties,   \* the two members the code names
    Overridden, Kept,         \* the members of the archive
    MaxVersion                \* bound on the versions the package goes through

ASSUME ArchiveAssumption ==
    /\ Executable \in Overridden
    /\ Properties \in Kept
    /\ Overridden \cap Kept = {}
    /\ MaxVersion \in Nat \ {0}

VARIABLES supported, disk, version, config, step, todo, tune,
          begun    \* history: the highest version whose extraction ever began

bootVars == <<supported, disk, version, config, step, todo, tune, begun>>

Members == Overridden \cup Kept
Versions == 1 .. MaxVersion

\* What a file may hold.  "tuned" is a stock server.properties with the two
\* lines rewritten, "user" is whatever the user made of the file.
Absent == [kind |-> "absent", of |-> 0]
TornFile == [kind |-> "torn", of |-> 0]
Stock(v) == [kind |-> "stock", of |-> v]
Tuned(v) == [kind |-> "tuned", of |-> v]
UserMade == [kind |-> "user", of |-> 0]
Contents == {Absent, TornFile, UserMade}
                \cup {Stock(v) : v \in Versions} \cup {Tuned(v) : v \in Versions}

Steps == {"idle", "download", "extract", "properties", "version",
          "validate", "prepare", "run", "running"}

BootTypeOK ==
    /\ supported \in Versions
    /\ disk \in [Members -> Contents]
    /\ version \in Contents
    /\ config \in Contents
    /\ step \in Steps
    /\ todo \subseteq Members
    /\ tune \in BOOLEAN
    /\ begun \in 0 .. MaxVersion

BootInit ==
    /\ supported \in Versions
    /\ disk = [f \in Members |-> Absent]
    /\ version = Absent
    /\ config = Absent
    /\ step = "idle"
    /\ todo = {}
    /\ tune = TRUE
    /\ begun = 0

Exists(f) == disk[f] # Absent

\* The version _update reads: none without version.txt.
CurrentVersion == IF version = Absent THEN 0 ELSE version.of

\* An exception, sys.exit, a kill or a crash: run() is over.
Over ==
    /\ step' = "idle"
    /\ todo' = {}
    /\ tune' = TRUE

GoTo(s) ==
    /\ step' = s
    /\ UNCHANGED <<todo, tune>>

\* _install and _update, up to the question put to the user.
NeedsInstall == ~Exists(Executable)
NeedsUpdate == version # TornFile /\ CurrentVersion < supported
UpToDate == version # TornFile /\ CurrentVersion = supported

Launch ==
    /\ step = "idle"
    /\ \/ (NeedsInstall \/ NeedsUpdate) /\ GoTo("download")
       \/ ~NeedsInstall /\ UpToDate /\ GoTo("validate")
    /\ UNCHANGED <<supported, disk, version, config, begun>>

\* An empty version.txt is no Version, and a newer server is refused: both
\* raise before anything is touched, at every launch.
Refuses == ~NeedsInstall /\ (version = TornFile \/ CurrentVersion > supported)

LaunchRefused ==
    /\ step = "idle"
    /\ Refuses
    /\ UNCHANGED bootVars

\* Mutant: version.txt is written before the files.
DownloadMarksFirst ==
    /\ step = "download"
    /\ step' = "extract"
    /\ todo' = Members
    /\ tune' = TRUE
    /\ begun' = IF supported > begun THEN supported ELSE begun
    /\ version' = Stock(supported)
    /\ UNCHANGED <<supported, disk, config>>

\* _download to a temporary file, and the SHA-256 of what was received.
Download ==
    /\ step = "download"
    /\ step' = "extract"
    /\ todo' = Members
    /\ tune' = TRUE
    /\ begun' = IF supported > begun THEN supported ELSE begun
    /\ UNCHANGED <<supported, disk, version, config>>

\* Mutant: every member is overwritten.
SkippedNever(f) == FALSE

\* A member that exists and that no override pattern names is left as it is.
Skipped(f) == Exists(f) /\ f \notin Overridden

\* One member of the archive; a skipped one also spares server.properties.
Extract(f) ==
    /\ step = "extract"
    /\ f \in todo
    /\ todo' = todo \ {f}
    /\ \/ Skipped(f) /\ tune' = FALSE /\ UNCHANGED disk
       \/ /\ ~Skipped(f)
          /\ disk' = [disk EXCEPT ![f] = Stock(supported)]
          /\ UNCHANGED tune
    /\ UNCHANGED <<supported, version, config, step, begun>>

Extracted ==
    /\ step = "extract"
    /\ todo = {}
    /\ GoTo(IF tune THEN "properties" ELSE "version")
    /\ UNCHANGED <<supported, disk, version, config, begun>>

ModifyProperties ==
    /\ step = "properties"
    /\ disk' = [disk EXCEPT ![Properties] = Tuned(supported)]
    /\ GoTo("version")
    /\ UNCHANGED <<supported, version, config, begun>>

WriteVersion ==
    /\ step = "version"
    /\ version' = Stock(supported)
    /\ GoTo("validate")
    /\ UNCHANGED <<supported, disk, config, begun>>

\* Mutant: a server without endstone.toml is refused, though _prepare would make it.
ValidateWantsConfig ==
    /\ step = "validate"
    /\ Exists(Executable)
    /\ IF config = Absent THEN Over ELSE GoTo("prepare")
    /\ UNCHANGED <<supported, disk, version, config, begun>>

\* _validate: the executable and the Endstone runtime are there.
Validate ==
    /\ step = "validate"
    /\ Exists(Executable)
    /\ GoTo("prepare")
    /\ UNCHANGED <<supported, disk, version, config, begun>>

\* What _prepare leaves in endstone.toml: the defaults when there is none, the
\* user's settings with the missing ones added, and the defaults again when a
\* torn file happens to parse.
Migrated(c) == IF c = UserMade THEN UserMade ELSE Stock(supported)

Prepare ==
    /\ step = "prepare"
    /\ config' = Migrated(config)
    /\ GoTo("run")
    /\ UNCHANGED <<supported, disk, version, begun>>

Run ==
    /\ step = "run"
    /\ GoTo("running")
    /\ UNCHANGED <<supported, disk, version, config, begun>>

\* _run returns when the server process has ended.
Stopped ==
    /\ step = "running"
    /\ Over
    /\ UNCHANGED <<supported, disk, version, config, begun>>

\* run() ends early: the user declines, the network fails, the digest differs,
\* the runtime is missing, a torn endstone.toml does not parse, or a crash
\* between two files.
Abort ==
    /\ step \notin {"idle", "running"}
    /\ Over
    /\ UNCHANGED <<supported, disk, version, config, begun>>

\* A crash in the middle of a file: what the step was writing is torn.
CrashWriting ==
    /\ \/ /\ step = "extract"
          /\ \E f \in todo : ~Skipped(f) /\ disk' = [disk EXCEPT ![f] = TornFile]
          /\ UNCHANGED <<version, config>>
       \/ /\ step = "properties"
          /\ disk' = [disk EXCEPT ![Properties] = TornFile]
          /\ UNCHANGED <<version, config>>
       \/ /\ step = "version"
          /\ version' = TornFile
          /\ UNCHANGED <<disk, config>>
       \/ /\ step = "prepare"
          /\ config' = TornFile
          /\ UNCHANGED <<disk, version>>
    /\ Over
    /\ UNCHANGED <<supported, begun>>

\* The user, between two runs: another version of the Endstone package (the
\* other way too), an edited settings file, a version.txt deleted as a repair.
ChangePackage(v) ==
    /\ step = "idle"
    /\ v # supported
    /\ supported' = v
    /\ UNCHANGED <<disk, version, config, step, todo, tune, begun>>

EditFile(f) ==
    /\ step = "idle"
    /\ Exists(f)
    /\ disk' = [disk EXCEPT ![f] = UserMade]
    /\ UNCHANGED <<supported, version, config, step, todo, tune, begun>>

EditConfig ==
    /\ step = "idle"
    /\ config # Absent
    /\ config' = UserMade
    /\ UNCHANGED <<supported, disk, version, step, todo, tune, begun>>

DeleteVersion ==
    /\ step = "idle"
    /\ version # Absent
    /\ version' = Absent
    /\ UNCHANGED <<supported, disk, config, step, todo, tune, begun>>

BootProgress ==
    \/ Launch \/ LaunchRefused \/ Download \/ Extracted \/ ModifyProperties \/ WriteVersion
    \/ Validate \/ Prepare
    \/ \E f \in Members : Extract(f)

UserChange ==
    \/ \E v \in Versions : ChangePackage(v)
    \/ \E f \in Kept : EditFile(f)
    \/ EditConfig
    \/ DeleteVersion

BootNext ==
    \/ BootProgress \/ Run \/ Stopped \/ Abort \/ CrashWriting \/ UserChange

BootSpec == BootInit /\ [][BootNext]_bootVars
-----------------------------------------------------------------------------
(***************************************************************************)
(* Properties                                                              *)
(***************************************************************************)

\* The server that runs is the one the package supports, whole: every member
\* that an update replaces comes complete from the supported version.  It is
\* so whichever steps were cut short before and however often, because
\* version.txt is written last (base.py:157); the exception is a package put
\* back below a version whose extraction had begun, as version.txt then still
\* names the files that extraction was replacing.
ServesSupported ==
    step = "running" /\ begun <= supported =>
        \A f \in Overridden : disk[f] = Stock(supported)

\* What version.txt says is true of the files unless a later extraction began.
VersionTruthful ==
    \A v \in Versions :
        version = Stock(v) /\ begun <= v /\ step # "extract" =>
            \A f \in Overridden : disk[f] = Stock(v)

\* A settings file of the server that the user has edited is never written by
\* an install or an update, not even by one that is interrupted: an archive
\* member that exists is skipped, and skipping one keeps server.properties
\* from being rewritten (base.py:132-140).
UserFilesKept ==
    [][\A f \in Kept : disk[f] = UserMade => disk'[f] = UserMade]_bootVars
=============================================================================
