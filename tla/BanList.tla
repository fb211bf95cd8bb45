------------------------------- MODULE BanList -------------------------------
(***************************************************************************)
(* A ban list and its JSON file: EndstoneBanList with the player matcher   *)
(* (core/ban/ban_list.h, player_ban_list.cpp) and the commands that use it. *)
(* The IP list is the same code matching on one field: take Names for the  *)
(* addresses and leave Uuids and Xuids empty.                              *)
(*                                                                         *)
(*   entries_  entries    a set: no two entries match one another           *)
(*                        (EntriesDistinct), so the order of the vector    *)
(*                        only decides which match is found first          *)
(*   file_     file       what banned-players.json holds                   *)
(*   the clock now        in half seconds: save() keeps whole seconds      *)
(*                                                                         *)
(* Names are compared ignoring case: a Name stands for all its spellings.  *)
(* The reason, the source and the creation date play no part in a lookup   *)
(* and are left out.                                                       *)
(*                                                                         *)
(* save() truncates the file before it serialises, ignores what the stream *)
(* reports, and its own result is ignored by every caller.  Whatever cuts  *)
(* it short (a full disk, text that is not UTF-8, a crash) leaves a torn   *)
(* file and a server that goes on; a crash may follow at any time.         *)
(* load() empties the list before it opens the file, and its result is     *)
(* ignored too: a file that cannot be read leaves a server without bans,   *)
(* and the next save overwrites it.  An entry that getBanEntry, getEntries *)
(* or addBan hands out is the one in the list: its setters change the list *)
(* and save nothing.                                                       *)
(***************************************************************************)
EXTENDS Integers, FiniteSets

CONSTANTS
    Names, Uuids, Xuids,   \* what identifies a player
    MaxTime                \* bound on the clock, in half seconds

ASSUME MaxTimeAssumption == MaxTime \in Nat /\ MaxTime >= 2

VARIABLES
    up,         \* is the server process running?
    entries,    \* entries_
    file,       \* [kind |-> "absent" | "torn" | "whole", bans |-> the entries]
    now,        \* the system clock
    standing,   \* history: the bans issued that nothing has lifted since
    unsaved     \* history: a save or a load failed or a setter changed an entry,
                \* and no save, nor the load of a restart, has succeeded since

banVars == <<up, entries, file, now, standing, unsaved>>

NoId == "none"          \* std::nullopt, or an empty xuid
Forever == 0            \* no expiration
FirstTime == 2          \* the clock starts on a whole second

Times == FirstTime .. MaxTime
Targets == [name : Names, uuid : Uuids \cup {NoId}, xuid : Xuids \cup {NoId}]
Bans == [target : Targets, expires : {Forever} \cup Times]
Whole(b) == [kind |-> "whole", bans |-> b]
Torn == [kind |-> "torn", bans |-> {}]
NoFile == [kind |-> "absent", bans |-> {}]

BanTypeOK ==
    /\ up \in BOOLEAN
    /\ entries \subseteq Bans
    /\ file \in [kind : {"absent", "torn", "whole"}, bans : SUBSET Bans]
    /\ now \in Times
    /\ standing \subseteq Bans
    /\ unsaved \in BOOLEAN

\* ids are compared only where both sides have one
SameId(a, b) == a = NoId \/ b = NoId \/ a = b

MatchesTarget(a, t) ==
    a.name = t.name /\ SameId(a.uuid, t.uuid) /\ SameId(a.xuid, t.xuid)

Matching(bans, t) == {b \in bans : MatchesTarget(b.target, t)}

Expired(b, time) == b.expires # Forever /\ b.expires < time

Unexpired(bans, time) == {b \in bans : ~Expired(b, time)}

\* date::floor<std::chrono::seconds>: two half seconds to the second
ToSeconds(b) == [b EXCEPT !.expires = @ - (@ % 2)]

Serialised(bans) == {ToSeconds(b) : b \in bans}

\* How far save() gets: the file is written, cannot be opened, or is cut short.
SaveOutcomes == {"written", "unopened", "torn"}

Save(bans, outcome) ==
    /\ file' = CASE outcome = "written"  -> Whole(Serialised(bans))
                 [] outcome = "torn"     -> Torn
                 [] outcome = "unopened" -> file
    /\ unsaved' = (outcome # "written")

\* How far load() gets: a file that is there may be impossible to open or read.
LoadOutcomes == {"read", "unread"}

\* Mutant: bans without a date do not come back.
LoadedOnlyTimed(outcome) == {b \in file.bans : outcome = "read" /\ b.expires # Forever}

\* What load() leaves in entries_: nothing of a file that cannot be read, and
\* nothing of one that does not parse.
Loaded(outcome) == {b \in file.bans : outcome = "read"}

BanInit ==
    /\ up = FALSE
    /\ entries = {}
    /\ file = NoFile
    /\ now = FirstTime
    /\ standing = {}
    /\ unsaved = FALSE

\* The constructor of EndstoneServer: load(), whose result is ignored.  What was
\* not saved is lost for good, and what is not read is lost with the next save:
\* from here on the loaded entries count.
StartServer(outcome) ==
    /\ ~up
    /\ outcome = "unread" => file.kind # "absent"
    /\ up' = TRUE
    /\ entries' = Loaded(outcome)
    /\ unsaved' = (outcome = "unread")
    /\ standing' = IF unsaved \/ outcome = "unread" THEN Loaded(outcome) ELSE standing
    /\ UNCHANGED <<file, now>>

\* The process ends, by a stop or by a crash: nothing is saved on the way out.
ServerGone ==
    /\ up
    /\ up' = FALSE
    /\ entries' = {}
    /\ UNCHANGED <<file, now, standing, unsaved>>

\* The erasure of what the new ban replaces, and the append.
WithBan(bans, b) == (bans \ Matching(bans, b.target)) \cup {b}

AddBanTo(live, t, expires, outcome) ==
    LET b == [target |-> t, expires |-> expires]
    IN  /\ entries' = WithBan(live, b)
        /\ standing' = WithBan(standing, b)
        /\ Save(WithBan(live, b), outcome)

\* A date that has passed is accepted.
AddBan(t, expires, outcome) ==
    /\ up
    /\ AddBanTo(entries, t, expires, outcome)
    /\ UNCHANGED <<up, now>>

\* Mutant: removeBan does not save.
RemoveBanUnsaved(t, outcome) ==
    /\ up
    /\ \E b \in Matching(entries, t) : entries' = entries \ {b}
    /\ standing' = standing \ Matching(standing, t)
    /\ UNCHANGED <<up, file, now, unsaved>>

\* removeBan erases the first match only; nothing is saved when there is none.
RemoveBan(t, outcome) ==
    /\ up
    /\ \E b \in Matching(entries, t) :
          /\ entries' = entries \ {b}
          /\ Save(entries \ {b}, outcome)
    /\ standing' = standing \ Matching(standing, t)
    /\ UNCHANGED <<up, now>>

Redated(bans, t, expires) ==
    {IF b.target = t THEN [b EXCEPT !.expires = expires] ELSE b : b \in bans}

\* BanEntry::setExpiration on an entry of the list that addBan, getBanEntry or
\* getEntries has handed out: one and the same object, and nothing is saved.
SetExpiration(b, expires) ==
    /\ up
    /\ b \in entries
    /\ entries' = Redated(entries, b.target, expires)
    /\ standing' = Redated(standing, b.target, expires)
    /\ unsaved' = TRUE
    /\ UNCHANGED <<up, file, now>>

\* isBanned, at login or from a plugin: expired entries go, without a save.
IsBanned(t) ==
    /\ up
    /\ entries' = Unexpired(entries, now)
    /\ UNCHANGED <<up, file, now, standing, unsaved>>

\* The /ban command: refused if the name alone is banned; an online player's
\* ids go into the entry, which never expires.
BanCommand(t, outcome) ==
    /\ up
    /\ LET live == Unexpired(entries, now)
           named == [name |-> t.name, uuid |-> NoId, xuid |-> NoId]
       IN  \/ /\ Matching(live, named) # {}
              /\ entries' = live
              /\ UNCHANGED <<file, standing, unsaved>>
           \/ /\ Matching(live, named) = {}
              /\ AddBanTo(live, t, Forever, outcome)
    /\ UNCHANGED <<up, now>>

\* The /pardon command: getBanEntry, then removeBan, by name.
PardonCommand(n, outcome) ==
    RemoveBan([name |-> n, uuid |-> NoId, xuid |-> NoId], outcome)

Tick ==
    /\ now < MaxTime
    /\ now' = now + 1
    /\ UNCHANGED <<up, entries, file, standing, unsaved>>

BanOperation ==
    \/ \E t \in Targets, outcome \in SaveOutcomes :
          \/ \E expires \in {Forever} \cup Times : AddBan(t, expires, outcome)
          \/ RemoveBan(t, outcome)
          \/ BanCommand(t, outcome)
    \/ \E n \in Names, outcome \in SaveOutcomes : PardonCommand(n, outcome)
    \/ \E t \in Targets : IsBanned(t)
    \/ \E b \in entries, expires \in {Forever} \cup Times : SetExpiration(b, expires)

Starts == \E outcome \in LoadOutcomes : StartServer(outcome)

BanNext == Starts \/ ServerGone \/ BanOperation \/ Tick

BanSpec == BanInit /\ [][BanNext]_banVars

-----------------------------------------------------------------------------
(***************************************************************************)
(* Properties                                                              *)
(***************************************************************************)

\* No two entries match one another: addBan erases every entry its target
\* matches before it appends (ban_list.h:54, player_ban_list.cpp:64), and
\* neither a restart nor the loss of precision in the file brings one back.
EntriesDistinct ==
    \A a, b \in entries : a # b => ~MatchesTarget(a.target, b.target)

\* A ban that was issued and that no later addBan or removeBan matched keeps
\* its player out until the second it ends, as its entry was last dated, whatever
\* restarts, crashes and expiries of other bans come between (ban_list.h:96, 129,
\* 180).  It may be lost at a restart in three cases, and no other: the last save
\* failed, the file could not be read (ban_list.h:137), or a date was changed
\* through an entry (ban_entry.h:74) and nothing has been saved since.
BansHold ==
    up => \A b \in standing :
             ~Expired(ToSeconds(b), now) => Matching(entries, b.target) # {}

\* Where the file was read, and once a save has succeeded after any other failure
\* and any setter's change, it says what memory says: it holds every entry, as it
\* is dated now, and what it holds beyond them has expired (isBanned drops expired
\* entries and does not save, ban_list.h:82).
DiskCurrent ==
    up /\ ~unsaved =>
        /\ Serialised(entries) \subseteq file.bans
        /\ Unexpired(file.bans, now) \subseteq Serialised(entries)
=============================================================================
