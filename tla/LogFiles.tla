------------------------------ MODULE LogFiles ------------------------------
(***************************************************************************)
(* FileLogSink: latest.log, and the numbered archives of a date that it is *)
(* rotated into when the server starts and at the first message of a day.  *)
(*                                                                         *)
(* The sink works under its mutex, so there is one thread; but the process *)
(* may be killed between any two operations on files, and midnight may     *)
(* pass between any two looks at the clock.  The clock is not set back,    *)
(* and a day is as long as the next.                                       *)
(*                                                                         *)
(* What rotate notices of a failure it tries again once (Fail): a rename,  *)
(* the opening of a file, the flush of the copy, the removal of the source. *)
(* A copy that breaks off before its flush it does not notice (Copied),    *)
(* and latest.log may be impossible to open again (ReopenFails).  Where    *)
(* the removal of a target fails, rename or the opening of the copy takes  *)
(* its place all the same.  A write to latest.log that fails loses lines   *)
(* that were not flushed, of which nothing is said here.                   *)
(***************************************************************************)
EXTENDS Integers, FiniteSets

CONSTANTS
    MaxFiles,       \* max_files_: archives per date, 1000 in the code
    MaxDay,         \* bound: dates
    MaxLine         \* bound: lines that are logged

ASSUME LogAssumption == MaxFiles \in Nat \ {0} /\ MaxDay \in Nat \ {0} /\ MaxLine \in Nat

Day == 1 .. MaxDay
Line == 1 .. MaxLine

\* calcFilename with index 0: logs/latest.log, which bears no date.
Base == <<0, 0>>
Archive == Day \X (1 .. MaxFiles)
Name == Archive \cup {Base}

\* A file: the lines in it, and whether it has been written to its end.
File == [lines : SUBSET Line, whole : BOOLEAN]
NoFile == [lines |-> {}, whole |-> FALSE, none |-> TRUE]
Empty == [lines |-> {}, whole |-> TRUE]
Torn == [lines |-> {}, whole |-> FALSE]

VARIABLES
    pc,         \* where the sink is: see Control
    day,        \* the local date
    disk,       \* the files
    buffer,     \* lines written to latest.log but not flushed
    pending,    \* the message that caused a rotation, as a set
    due,        \* rotation_tp_, as a date
    i, src, target, tries,  \* the locals of rotate
    count,      \* lines logged so far
    settled,    \* history: lines that were flushed
    dropped,    \* history: lines of archives that made room, being the last of their date
    missed      \* history: lines that the copy that was last made of them left out, unnoticed

vars == <<pc, day, disk, buffer, pending, due, i, src, target, tries, count, settled, dropped, missed>>

Control ==
    {"down", "running", "closed", "close", "look", "target", "remove", "rename", "copy", "copied", "unlink", "failed",
     "reopen"}

TypeOK ==
    /\ pc \in Control /\ day \in Day
    /\ disk \in [Name -> File \cup {NoFile}]
    /\ buffer \subseteq Line /\ pending \subseteq Line
    /\ due \in 0 .. MaxDay + 1
    /\ i \in 0 .. MaxFiles /\ src \in Name /\ target \in Name /\ tries \in 0 .. 1
    /\ count \in 0 .. MaxLine
    /\ settled \subseteq Line /\ dropped \subseteq Line /\ missed \subseteq Line

Init ==
    /\ pc = "down" /\ day = 1
    /\ disk = [n \in Name |-> NoFile]
    /\ buffer = {} /\ pending = {}
    /\ due = 0 /\ i = 0 /\ src = Base /\ target = Base /\ tries = 0
    /\ count = 0
    /\ settled = {} /\ dropped = {} /\ missed = {}

-----------------------------------------------------------------------------
path_exists(n) == disk[n] # NoFile
\* Mutant: the oldest archive of a date is number 1.
calcFilenameUpwards(index) == IF index = 0 THEN Base ELSE <<day, MaxFiles + 1 - index>>
calcFilename(index) == IF index = 0 THEN Base ELSE <<day, index>>

\* What is in latest.log once the buffer has been flushed.
Flushed == [disk EXCEPT ![Base].lines = @ \cup buffer]
Flushes ==
    /\ disk' = Flushed
    /\ settled' = settled \cup buffer
    /\ buffer' = {}

locals == <<i, src, target, tries>>
NoLocals == i' = 0 /\ src' = Base /\ target' = Base /\ tries' = 0

\* Midnight.
Midnight ==
    /\ day < MaxDay
    /\ day' = day + 1
    /\ UNCHANGED <<pc, disk, buffer, pending, due, locals, count, settled, dropped, missed>>

\* The constructor: what an earlier process has left is rotated away.
Open ==
    /\ pc = "down"
    /\ IF path_exists(Base) THEN pc' = "close" /\ UNCHANGED <<disk, due>>
       ELSE pc' = "running" /\ disk' = [disk EXCEPT ![Base] = Empty] /\ due' = day + 1
    /\ UNCHANGED <<day, buffer, pending, locals, count, settled, dropped, missed>>

\* sink_it_: the date of the message is that of its creation, which may be before a
\* midnight that has passed since.  Where latest.log could not be opened again, a
\* message that calls for no rotation is written nowhere.
Log ==
    /\ pc \in {"running", "closed"}
    /\ count < MaxLine
    /\ count' = count + 1
    /\ \E date \in {day - 1, day} :
         IF date >= due THEN pc' = "close" /\ pending' = {count + 1} /\ UNCHANGED buffer
         ELSE /\ buffer' = IF pc = "running" THEN buffer \cup {count + 1} ELSE buffer
              /\ UNCHANGED <<pc, pending>>
    /\ UNCHANGED <<day, disk, due, locals, settled, dropped, missed>>

\* flush_, or a full buffer.
Flush ==
    /\ pc = "running"
    /\ buffer # {}
    /\ Flushes
    /\ UNCHANGED <<pc, day, pending, due, locals, count, dropped, missed>>

\* The process is killed.
Crash ==
    /\ pc # "down"
    /\ pc' = "down"
    /\ buffer' = {} /\ pending' = {}
    /\ NoLocals
    /\ UNCHANGED <<day, disk, due, count, settled, dropped, missed>>

-----------------------------------------------------------------------------
(* rotate *)

Close ==
    /\ pc = "close"
    /\ Flushes
    /\ pc' = "look" /\ i' = MaxFiles
    /\ UNCHANGED <<day, pending, due, src, target, tries, count, dropped, missed>>

\* The next file to move, from the highest number down.
Look ==
    /\ pc = "look" /\ i > 0
    /\ LET from == calcFilename(i - 1) IN
       IF path_exists(from) THEN pc' = "target" /\ src' = from /\ UNCHANGED i
       ELSE i' = i - 1 /\ UNCHANGED <<pc, src>>
    /\ UNCHANGED <<day, disk, buffer, pending, due, target, tries, count, settled, dropped, missed>>

Target ==
    /\ pc = "target"
    /\ pc' = "remove" /\ target' = calcFilename(i) /\ tries' = 0
    /\ UNCHANGED <<day, disk, buffer, pending, due, i, src, count, settled, dropped, missed>>

\* Both rename and compress begin by removing the target.
Remove ==
    /\ pc = "remove"
    /\ disk' = [disk EXCEPT ![target] = NoFile]
    /\ dropped' = IF i = MaxFiles THEN dropped \cup disk[target].lines ELSE dropped
    /\ pc' = IF i = 1 THEN "copy" ELSE "rename"
    /\ UNCHANGED <<day, buffer, pending, due, locals, count, settled, missed>>

Moved == pc' = "look" /\ i' = i - 1 /\ src' = Base /\ target' = Base /\ tries' = 0

rename ==
    /\ pc = "rename"
    /\ disk' = [disk EXCEPT ![target] = disk[src], ![src] = NoFile]
    /\ Moved
    /\ UNCHANGED <<day, buffer, pending, due, count, settled, dropped, missed>>

\* compress: the copy, which is a file from its first byte on ...
Copy ==
    /\ pc = "copy"
    /\ disk' = [disk EXCEPT ![target] = Torn]
    /\ pc' = "copied"
    /\ UNCHANGED <<day, buffer, pending, due, locals, count, settled, dropped, missed>>

\* What a copy of a file may come to: nobody asks the streams whether all of it was
\* read and written, so it may break off after any line, or lack its end and be useless.
CopiesOf(f) == {[f EXCEPT !.lines = {x \in f.lines : x <= k}] : k \in 0 .. MaxLine} \cup {Torn}

\* ... written and closed ...
Copied ==
    /\ pc = "copied"
    /\ \E copy \in CopiesOf(disk[src]) :
          /\ disk' = [disk EXCEPT ![target] = copy]
          /\ missed' = (missed \ disk[src].lines) \cup (disk[src].lines \ copy.lines)
    /\ pc' = "unlink"
    /\ UNCHANGED <<day, buffer, pending, due, locals, count, settled, dropped>>

\* ... before the source is removed.
Unlink ==
    /\ pc = "unlink"
    /\ disk' = [disk EXCEPT ![src] = NoFile]
    /\ Moved
    /\ UNCHANGED <<day, buffer, pending, due, count, settled, dropped, missed>>

\* What is noticed of a failure: rename's result; a source or a copy that cannot be
\* opened, an exception from the flush of the copy; the result of the last removal.
Fail ==
    /\ pc \in {"rename", "copy", "copied", "unlink"}
    /\ pc' = "failed"
    /\ UNCHANGED <<day, disk, buffer, pending, due, locals, count, settled, dropped, missed>>

\* Mutant: a file that cannot be moved is skipped.
SkipFailed == pc' = "look" /\ i' = i - 1
\* A second failure ends the loop.
GiveUp == pc' = "reopen" /\ i' = i

\* Mutant: every failure is the first.
FirstAlways == TRUE
First == tries = 0

\* After a first failure, once more.
Retry ==
    /\ pc = "failed"
    /\ IF First THEN pc' = "remove" /\ tries' = 1 /\ UNCHANGED i
       ELSE GiveUp /\ UNCHANGED tries
    /\ UNCHANGED <<day, disk, buffer, pending, due, src, target, count, settled, dropped, missed>>

Rotated ==
    /\ pc = "look" /\ i = 0
    /\ pc' = "reopen"
    /\ UNCHANGED <<day, disk, buffer, pending, due, locals, count, settled, dropped, missed>>

\* reopen without truncating, the next rotation, and the message that was waiting.
Reopen ==
    /\ pc = "reopen"
    /\ pc' = "running"
    /\ disk' = IF path_exists(Base) THEN disk ELSE [disk EXCEPT ![Base] = Empty]
    /\ due' = day + 1
    /\ buffer' = buffer \cup pending /\ pending' = {}
    /\ NoLocals
    /\ UNCHANGED <<day, count, settled, dropped, missed>>

\* reopen throws.  Out of the constructor there is no sink; else the message is lost
\* and rotation_tp_ is what it was, so that the next message of the day tries again.
ReopenFails ==
    /\ pc = "reopen"
    /\ pc' = IF pending = {} THEN "down" ELSE "closed"
    /\ pending' = {}
    /\ NoLocals
    /\ UNCHANGED <<day, disk, buffer, due, count, settled, dropped, missed>>

-----------------------------------------------------------------------------
Rotation ==
    \/ Close \/ Look \/ Target \/ Remove \/ rename
    \/ Copy \/ Copied \/ Unlink \/ Fail \/ Retry \/ Rotated \/ Reopen \/ ReopenFails

Next == Midnight \/ Open \/ Log \/ Flush \/ Crash \/ Rotation

\* A call of rotate goes on until it returns or the process ends.
Spec == Init /\ [][Next]_vars /\ WF_vars(Rotation)

-----------------------------------------------------------------------------
Whole == {n \in Name : path_exists(n) /\ disk[n].whole}

\* A line that was flushed is in a complete file for as long as its date has fewer than
\* max_files_ archives: rotate moves files one by one, and however often it notices a
\* failure, is retried, is given up, cannot open latest.log again, or the process is
\* killed half-way, no file is overwritten.  Exempt are the lines that a copy of
\* latest.log left out without compress noticing it, which then removes the source.
NothingLost ==
    \A x \in settled \ (dropped \cup missed) : \E n \in Whole : x \in disk[n].lines

\* The archives of a date are numbered from the newest to the oldest, and latest.log is
\* newer than all: what a file holds beyond another of a higher number was logged later.
ArchivesInOrder ==
    \A m, n \in Whole :
        (m = Base \/ (n # Base /\ m[1] = n[1] /\ m[2] < n[2])) =>
            \A x \in disk[n].lines, y \in disk[m].lines \ disk[n].lines : x < y

\* A message is never held up for good by a rotation that keeps failing: rotate comes
\* back after at most two attempts at a file, and the logger, which waits for it under
\* the sink's mutex with everyone who logs, goes on.
RotationEnds == (pc = "close") ~> (pc \in {"running", "closed", "down"})
=============================================================================
