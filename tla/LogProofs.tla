----------------------------- MODULE LogProofs -----------------------------
(***************************************************************************)
(* Proofs that FileLogSink loses no line that was flushed, and that the    *)
(* archives of a date are in order, for any number of archives, dates and  *)
(* lines.                                                                  *)
(***************************************************************************)
EXTENDS LogFiles, TLAPS

Rotating == {"target", "remove", "rename", "copy", "copied", "unlink", "failed"}
Aimed == Rotating \ {"target"}
Started == {"rename", "copy", "copied", "unlink", "failed"}

LogTypes ==
    /\ day \in Day
    /\ disk \in [Name -> File \cup {NoFile}]
    /\ buffer \subseteq Line /\ pending \subseteq Line /\ count \in 0 .. MaxLine
    /\ i \in 0 .. MaxFiles /\ src \in Name /\ target \in Name

\* latest.log is never torn, and is there while the sink runs or has lines to flush to it.
BaseIsWhole ==
    /\ disk[Base] \in File => disk[Base].whole
    /\ pc = "running" => disk[Base] \in File
    /\ buffer # {} => pc \in {"running", "close"} /\ disk[Base] \in File

\* Nothing bears a date that is still to come.
NothingAhead == \A d \in Day, k \in 1 .. MaxFiles : d > day => disk[<<d, k>>] = NoFile

\* The place that the next file is moved to is empty, unless it is the last of its date.
Vacant ==
    (pc \in {"look", "target"} /\ i \in 1 .. MaxFiles /\ i < MaxFiles) => disk[<<day, i>>] = NoFile

\* The file that is being moved, from number i - 1.
Source ==
    pc \in Rotating =>
        /\ i \in 1 .. MaxFiles
        /\ disk[src] \in File
        /\ i = 1 => src = Base
        /\ i > 1 => \E d \in Day : /\ d <= day /\ src = <<d, i - 1>>
                                   /\ \A e \in Day : e > d => disk[<<e, i - 1>>] = NoFile

\* The place it goes to: nothing is there that is not in latest.log, too.
Goal ==
    /\ pc \in Aimed => \E d \in Day : d <= day /\ target = <<d, i>>
    /\ (pc = "remove" /\ i < MaxFiles) \/ pc \in Started =>
          disk[target] = NoFile \/ (i = 1 /\ disk[target].lines \subseteq disk[src].lines)
    /\ pc \in {"rename", "copy"} => disk[target] = NoFile
    /\ pc \in {"copy", "copied", "unlink"} => i = 1
    /\ pc = "rename" => i > 1
    /\ pc = "unlink" =>
          /\ disk[target] \in File
          /\ \A x \in disk[src].lines : x \in missed \/ (disk[target].whole /\ x \in disk[target].lines)

LogInv == LogTypes /\ BaseIsWhole /\ NothingAhead /\ Vacant /\ Source /\ Goal /\ NothingLost

-----------------------------------------------------------------------------
LEMMA NameFacts ==
    /\ Base \in Name
    /\ \A d \in Day, k \in 1 .. MaxFiles : <<d, k>> \in Name /\ <<d, k>> # Base
    /\ Empty \in File /\ Empty.whole /\ Empty.lines = {}
    /\ Torn \in File /\ ~Torn.whole /\ Torn.lines = {}
    /\ \A f \in File : f # NoFile
    /\ ~NoFile.whole /\ NoFile.lines = {}
  BY DEF Name, Archive, Base, Day, Empty, Torn, File, NoFile

LEMMA LogInit == Init => LogInv
  BY NameFacts, LogAssumption
     DEF Init, LogInv, LogTypes, BaseIsWhole, NothingAhead, Vacant, Source, Goal, NothingLost,
         Rotating, Aimed, Started, Day

LEMMA MidnightInv == ASSUME LogInv, Midnight PROVE LogInv'
  <1>1. day \in Nat /\ day' = day + 1 /\ day' \in Day /\ day \in Day
    BY LogAssumption DEF LogInv, LogTypes, Midnight, Day
  <1>2. UNCHANGED <<pc, disk, buffer, pending, count, i, src, target, settled, dropped, missed>>
    BY DEF Midnight, locals
  <1>3. LogTypes' /\ BaseIsWhole' /\ NothingLost'
    BY <1>1, <1>2 DEF LogInv, LogTypes, BaseIsWhole, NothingLost, Whole, path_exists
  <1>4. NothingAhead' /\ Vacant'
    BY <1>1, <1>2 DEF LogInv, LogTypes, NothingAhead, Vacant, Day
  <1>5. Source' /\ Goal'
    BY <1>1, <1>2 DEF LogInv, Source, Goal, Day
  <1> QED
    BY <1>3, <1>4, <1>5 DEF LogInv

\* Steps that leave the files alone and are not in the middle of moving one.
LEMMA IdleInv ==
    ASSUME LogInv, UNCHANGED <<day, disk, settled, dropped, missed>>,
           buffer' \subseteq Line, pending' \subseteq Line, count' \in 0 .. MaxLine,
           i' \in 0 .. MaxFiles, src' \in Name, target' \in Name,
           pc' \notin Rotating \cup {"look"} \/ (pc' = "look" /\ i' = MaxFiles),
           pc' = "running" => disk[Base] \in File,
           buffer' # {} => pc' \in {"running", "close"} /\ disk[Base] \in File
    PROVE  LogInv'
  <1>1. LogTypes' /\ BaseIsWhole' /\ NothingAhead' /\ NothingLost'
    BY DEF LogInv, LogTypes, BaseIsWhole, NothingAhead, NothingLost, Whole, path_exists
  <1>2. Vacant' /\ Source' /\ Goal'
    BY LogAssumption DEF Vacant, Source, Goal, Rotating, Aimed, Started
  <1> QED
    BY <1>1, <1>2 DEF LogInv

\* latest.log comes into being, empty.
LEMMA CreatedInv ==
    ASSUME LogInv, ~path_exists(Base), UNCHANGED <<day, settled, dropped, missed>>,
           disk' = [disk EXCEPT ![Base] = Empty],
           buffer' \subseteq Line, pending' \subseteq Line, count' \in 0 .. MaxLine,
           i' \in 0 .. MaxFiles, src' \in Name, target' \in Name, pc' = "running"
    PROVE  LogInv'
  <1>1. /\ disk'[Base] = Empty /\ \A n \in Name \ {Base} : disk'[n] = disk[n]
        /\ disk' \in [Name -> File \cup {NoFile}]
    BY NameFacts DEF LogInv, LogTypes
  <1>2. LogTypes' /\ BaseIsWhole' /\ NothingAhead'
    BY <1>1, NameFacts DEF LogInv, LogTypes, BaseIsWhole, NothingAhead
  <1>3. Vacant' /\ Source' /\ Goal'
    BY DEF Vacant, Source, Goal, Rotating, Aimed, Started
  <1>4. \A n \in Whole : n \in Whole' /\ disk'[n] = disk[n]
    BY <1>1 DEF Whole, path_exists
  <1>5. NothingLost'
    BY <1>4 DEF LogInv, NothingLost
  <1> QED
    BY <1>2, <1>3, <1>5 DEF LogInv

\* Where latest.log is missing there is nothing to flush.
LEMMA NothingToFlush ==
    ASSUME LogInv, Flushes, disk[Base] \notin File
    PROVE  disk' = disk /\ buffer = {} /\ UNCHANGED <<buffer, settled>>
  <1>1. disk[Base] = NoFile /\ buffer = {}
    BY NameFacts DEF LogInv, LogTypes, BaseIsWhole
  <1>2. disk' = [disk EXCEPT ![Base] = [disk[Base] EXCEPT !.lines = disk[Base].lines \cup buffer]]
    BY DEF Flushes, Flushed
  <1>3. [NoFile EXCEPT !.lines = NoFile.lines \cup {}] = NoFile
    BY DEF NoFile
  <1>4. disk' = disk
    BY <1>1, <1>2, <1>3 DEF LogInv, LogTypes
  <1> QED
    BY <1>1, <1>4 DEF Flushes

\* The buffer goes to latest.log.
LEMMA FlushesInv ==
    ASSUME LogInv, pc \in {"running", "close"}, disk[Base] \in File, Flushes, UNCHANGED <<day, dropped, missed>>,
           pending' \subseteq Line, count' \in 0 .. MaxLine, src' \in Name, target' \in Name,
           \/ pc' = "running" /\ i' = i
           \/ pc' = "look" /\ i' = MaxFiles
    PROVE  LogInv'
  <1>1. disk[Base] \in File /\ disk[Base].whole
    BY DEF LogInv, BaseIsWhole
  <1>2. disk' = [disk EXCEPT ![Base].lines = disk[Base].lines \cup buffer]
    BY DEF Flushes, Flushed
  <1>3. /\ disk'[Base] = [disk[Base] EXCEPT !.lines = disk[Base].lines \cup buffer]
        /\ \A n \in Name \ {Base} : disk'[n] = disk[n]
    BY <1>2, NameFacts DEF LogInv, LogTypes
  <1>4. /\ disk'[Base] \in File /\ disk'[Base].whole
        /\ disk'[Base].lines = disk[Base].lines \cup buffer
    BY <1>1, <1>3 DEF LogInv, LogTypes, File
  <1>5. disk' \in [Name -> File \cup {NoFile}]
    BY <1>2, <1>3, <1>4 DEF LogInv, LogTypes
  <1>6. LogTypes' /\ BaseIsWhole' /\ NothingAhead' /\ Vacant' /\ Source' /\ Goal'
    BY <1>3, <1>4, <1>5, NameFacts, LogAssumption
       DEF LogInv, LogTypes, BaseIsWhole, NothingAhead, Vacant, Source, Goal, Rotating, Aimed, Started, Flushes
  <1>7. Base \in Whole' /\ \A n \in Whole : n \in Whole' /\ disk[n].lines \subseteq disk'[n].lines
    BY <1>3, <1>4, NameFacts DEF Whole, path_exists
  <1>8. NothingLost'
    BY <1>4, <1>7 DEF LogInv, NothingLost, Flushes
  <1> QED
    BY <1>6, <1>8 DEF LogInv

LEMMA LookInv == ASSUME LogInv, Look PROVE LogInv'
  <1> DEFINE from == calcFilename(i - 1)
  <1>1. /\ UNCHANGED <<day, disk, buffer, pending, count, target, settled, dropped, missed>>
        /\ i \in 1 .. MaxFiles /\ pc = "look"
    BY LogAssumption DEF LogInv, LogTypes, Look
  <1>2. /\ from \in Name
        /\ i = 1 => from = Base
        /\ i > 1 => from = <<day, i - 1>> /\ i - 1 \in 1 .. MaxFiles
    BY <1>1, NameFacts, LogAssumption DEF LogInv, LogTypes, calcFilename
  <1>3. BaseIsWhole' /\ NothingAhead' /\ NothingLost'
    BY <1>1, <1>2 DEF LogInv, BaseIsWhole, NothingAhead, NothingLost, Whole, path_exists, Look
  <1>4. CASE path_exists(from)
    <2>1. pc' = "target" /\ src' = from /\ i' = i /\ disk[from] \in File
      BY <1>2, <1>4 DEF Look, LogInv, LogTypes, path_exists
    <2>2. Source'
      <3>1. CASE i = 1
        BY <1>1, <1>2, <2>1, <3>1 DEF Source
      <3>2. CASE i > 1
        <4>1. day \in Day /\ day <= day /\ \A e \in Day : e > day => disk[<<e, i - 1>>] = NoFile
          BY <1>2, <3>2 DEF LogInv, LogTypes, NothingAhead, Day
        <4>2. src' = <<day, i - 1>> /\ i' # 1
          BY <1>2, <2>1, <3>2
        <4> QED
          BY <1>1, <2>1, <4>1, <4>2 DEF Source
      <3> QED
        BY <1>1, <3>1, <3>2
    <2>3. LogTypes' /\ Vacant' /\ Goal'
      BY <1>1, <1>2, <2>1 DEF LogInv, LogTypes, Vacant, Goal, Aimed, Started, Rotating
    <2> QED
      BY <1>3, <2>2, <2>3 DEF LogInv
  <1>5. CASE ~path_exists(from)
    <2>1. pc' = "look" /\ src' = src /\ i' = i - 1 /\ disk[from] = NoFile
      BY <1>1, <1>5 DEF Look, path_exists
    <2>2. Vacant'
      BY <1>1, <1>2, <2>1 DEF Vacant
    <2>3. i - 1 \in 0 .. MaxFiles
      BY <1>1, LogAssumption
    <2>4. LogTypes' /\ Source' /\ Goal'
      BY <1>1, <2>1, <2>3 DEF LogInv, LogTypes, Source, Goal, Aimed, Started, Rotating
    <2> QED
      BY <1>3, <2>2, <2>4 DEF LogInv
  <1> QED
    BY <1>4, <1>5

LEMMA TargetInv == ASSUME LogInv, Target PROVE LogInv'
  <1>1. /\ UNCHANGED <<day, disk, buffer, pending, count, i, src, settled, dropped, missed>>
        /\ pc = "target" /\ pc' = "remove" /\ i \in 1 .. MaxFiles
    BY DEF LogInv, Source, Rotating, Target
  <1>2. target' = <<day, i>> /\ target' \in Name
    BY <1>1, NameFacts, LogAssumption DEF Target, calcFilename, LogInv, LogTypes
  <1>3. LogTypes' /\ BaseIsWhole' /\ NothingAhead' /\ Vacant' /\ Source' /\ NothingLost'
    BY <1>1, <1>2 DEF LogInv, LogTypes, BaseIsWhole, NothingAhead, Vacant, Source, Rotating,
                      NothingLost, Whole, path_exists
  <1>4. Goal'
    BY <1>1, <1>2 DEF LogInv, LogTypes, Vacant, Goal, Aimed, Started, Rotating, Day
  <1> QED
    BY <1>3, <1>4 DEF LogInv

LEMMA FailInv == ASSUME LogInv, Fail PROVE LogInv'
  <1>1. /\ UNCHANGED <<day, disk, buffer, pending, count, i, src, target, settled, dropped, missed>>
        /\ pc \in {"rename", "copy", "copied", "unlink"} /\ pc' = "failed"
    BY DEF Fail, locals
  <1>2. LogTypes' /\ BaseIsWhole' /\ NothingAhead' /\ Vacant' /\ Source' /\ NothingLost'
    BY <1>1 DEF LogInv, LogTypes, BaseIsWhole, NothingAhead, Vacant, Source, Rotating, NothingLost, Whole, path_exists
  <1>3. Goal'
    BY <1>1 DEF LogInv, Goal, Aimed, Started, Rotating
  <1> QED
    BY <1>2, <1>3 DEF LogInv

LEMMA RetryInv == ASSUME LogInv, Retry PROVE LogInv'
  <1>1. /\ UNCHANGED <<day, disk, buffer, pending, count, i, src, target, settled, dropped, missed>>
        /\ pc = "failed" /\ pc' \in {"remove", "reopen"}
    BY DEF Retry, GiveUp
  <1>2. LogTypes' /\ BaseIsWhole' /\ NothingAhead' /\ Vacant' /\ Source' /\ NothingLost'
    BY <1>1 DEF LogInv, LogTypes, BaseIsWhole, NothingAhead, Vacant, Source, Rotating, NothingLost, Whole, path_exists
  <1>3. Goal'
    BY <1>1 DEF LogInv, Goal, Aimed, Started, Rotating
  <1> QED
    BY <1>2, <1>3 DEF LogInv

\* What is known while a file is being moved.
LEMMA MovingFacts ==
    ASSUME LogInv, pc \in Aimed
    PROVE  /\ i \in 1 .. MaxFiles /\ disk[src] \in File /\ src \in Name /\ target \in Name
           /\ target # src /\ target # Base
           /\ i = 1 => src = Base /\ disk[src].whole
           /\ i > 1 => src # Base
  <1>1. i \in 1 .. MaxFiles /\ disk[src] \in File /\ src \in Name /\ target \in Name
    BY DEF LogInv, LogTypes, Source, Aimed
  <1>2. PICK d \in Day : target = <<d, i>>
    BY DEF LogInv, Goal
  <1>3. target # Base
    BY <1>1, <1>2, NameFacts
  <1>4. i = 1 => src = Base /\ disk[src].whole
    BY <1>1 DEF LogInv, Source, Aimed, BaseIsWhole
  <1>5. ASSUME i > 1
        PROVE  src # Base /\ src # target
    <2>1. PICK e \in Day : src = <<e, i - 1>>
      BY <1>5 DEF LogInv, Source, Aimed
    <2>2. i - 1 \in 1 .. MaxFiles /\ i - 1 # i
      BY <1>1, <1>5, LogAssumption
    <2>3. src # Base
      BY <2>1, <2>2, NameFacts
    <2>4. src # target
      BY <1>2, <2>1, <2>2
    <2> QED
      BY <2>3, <2>4
  <1>6. i = 1 \/ i > 1
    BY <1>1, LogAssumption
  <1> QED
    BY <1>1, <1>3, <1>4, <1>5, <1>6

\* A step that changes the target alone, while the same file is being moved.
LEMMA TargetOnly ==
    ASSUME LogInv, pc \in Aimed, pc' \in Aimed, NEW f \in File \cup {NoFile},
           disk' = [disk EXCEPT ![target] = f], UNCHANGED <<day, buffer, pending, count, i, src, target>>
    PROVE  /\ LogTypes' /\ BaseIsWhole' /\ NothingAhead' /\ Vacant' /\ Source'
           /\ disk'[target] = f /\ \A n \in Name \ {target} : disk'[n] = disk[n]
           /\ \E d \in Day : d <= day /\ target = <<d, i>>
  <1>1. i \in 1 .. MaxFiles /\ disk[src] \in File /\ src \in Name /\ target \in Name /\ target # src /\ target # Base
    BY MovingFacts
  <1>2. disk'[target] = f /\ \A n \in Name \ {target} : disk'[n] = disk[n]
    BY <1>1 DEF LogInv, LogTypes
  <1>3. PICK d \in Day : d <= day /\ target = <<d, i>>
    BY DEF LogInv, Goal
  <1>4. LogTypes' /\ BaseIsWhole' /\ Vacant'
    BY <1>1, <1>2, NameFacts DEF LogInv, LogTypes, BaseIsWhole, Vacant, Aimed, Rotating
  <1>5. NothingAhead'
    <2> SUFFICES ASSUME NEW e \in Day, NEW k \in 1 .. MaxFiles, e > day
                 PROVE  disk'[<<e, k>>] = NoFile
      BY DEF NothingAhead
    <2>1. e # d
      BY <1>3 DEF Day, LogInv, LogTypes
    <2>2. <<e, k>> # target /\ <<e, k>> \in Name
      BY <1>3, <2>1, NameFacts
    <2> QED
      BY <1>2, <2>2 DEF LogInv, NothingAhead
  <1>6. Source'
    <2>1. CASE i = 1
      BY <1>1, <1>2, <2>1 DEF LogInv, Source, Aimed
    <2>2. CASE i > 1
      <3>1. PICK e \in Day : /\ e <= day /\ src = <<e, i - 1>>
                             /\ \A g \in Day : g > e => disk[<<g, i - 1>>] = NoFile
        BY <2>2 DEF LogInv, Source, Aimed
      <3>2. i - 1 \in 1 .. MaxFiles /\ i - 1 # i
        BY <1>1, <2>2, LogAssumption
      <3>3. \A g \in Day : <<g, i - 1>> # target /\ <<g, i - 1>> \in Name
        BY <1>3, <3>2, NameFacts
      <3>4. \A g \in Day : g > e => disk'[<<g, i - 1>>] = NoFile
        BY <1>2, <3>1, <3>3
      <3> QED
        BY <1>1, <1>2, <2>2, <3>1, <3>4 DEF Source
    <2> QED
      BY <1>1, <2>1, <2>2, LogAssumption
  <1> QED
    BY <1>2, <1>3, <1>4, <1>5, <1>6

LEMMA RemoveInv == ASSUME LogInv, Remove PROVE LogInv'
  <1>1. /\ pc = "remove" /\ disk' = [disk EXCEPT ![target] = NoFile]
        /\ pc' \in {"copy", "rename"} /\ (pc' = "copy" <=> i = 1)
        /\ UNCHANGED <<day, buffer, pending, count, i, src, target, settled, missed>>
        /\ i = MaxFiles => dropped' = dropped \cup disk[target].lines
        /\ i # MaxFiles => dropped' = dropped
    BY DEF Remove, locals
  <1>2. pc \in Aimed /\ pc' \in Aimed /\ NoFile \in File \cup {NoFile}
    BY <1>1 DEF Aimed, Rotating
  <1>3. /\ LogTypes' /\ BaseIsWhole' /\ NothingAhead' /\ Vacant' /\ Source'
        /\ disk'[target] = NoFile /\ \A n \in Name \ {target} : disk'[n] = disk[n]
        /\ \E d \in Day : d <= day /\ target = <<d, i>>
    BY <1>1, <1>2, TargetOnly
  <1>4. i \in 1 .. MaxFiles /\ src \in Name /\ target # src /\ (i = 1 => src = Base /\ disk[src].whole)
        /\ disk[src] \in File
    BY <1>2, MovingFacts
  <1>5. Goal'
    <2>1. i # 1 => i > 1
      BY <1>4, LogAssumption
    <2> QED
      BY <1>1, <1>3, <2>1 DEF Goal, Aimed, Started, Rotating
  <1>6. \A n \in Whole \ {target} : n \in Whole' /\ disk'[n] = disk[n]
    BY <1>3 DEF Whole, path_exists
  <1>7. NothingLost'
    <2> SUFFICES ASSUME NEW x \in settled, x \notin dropped', x \notin missed
                 PROVE  \E n \in Whole' : x \in disk'[n].lines
      BY <1>1 DEF NothingLost
    <2>1. x \notin dropped
      BY <1>1
    <2>2. PICK n \in Whole : x \in disk[n].lines
      BY <2>1 DEF LogInv, NothingLost
    <2>3. CASE n # target
      BY <1>6, <2>2, <2>3
    <2>4. CASE n = target
      <3>1. i # MaxFiles
        BY <1>1, <2>2, <2>4
      <3>2. i < MaxFiles
        BY <1>4, <3>1, LogAssumption
      <3>3. disk[target] # NoFile
        BY <2>2, <2>4 DEF Whole, path_exists
      <3>4. i = 1 /\ x \in disk[src].lines
        BY <1>1, <2>2, <2>4, <3>2, <3>3 DEF LogInv, Goal
      <3>5. src \in Whole \ {target}
        BY <1>4, <3>4, NameFacts DEF Whole, path_exists
      <3> QED
        BY <1>6, <3>4, <3>5
    <2> QED
      BY <2>3, <2>4
  <1> QED
    BY <1>3, <1>5, <1>7 DEF LogInv

\* A copy, as far as it got, against what was to be copied: only what the copy left
\* out unnoticed is not in it, and it is a beginning of it.
LEMMA CopyFacts ==
    ASSUME NEW g \in File, g.whole, NEW f \in CopiesOf(g)
    PROVE  /\ f \in File /\ f.lines \subseteq g.lines
           /\ f.lines = {} \/ f.whole
           /\ \A x \in f.lines, y \in g.lines \ f.lines : x < y
  <1>1. CASE f = Torn
    BY <1>1, NameFacts
  <1>2. ASSUME NEW k \in 0 .. MaxLine, f = [g EXCEPT !.lines = {x \in g.lines : x <= k}]
        PROVE  /\ f \in File /\ f.lines \subseteq g.lines /\ f.whole
               /\ \A x \in f.lines, y \in g.lines \ f.lines : x < y
    <2>1. g.lines \subseteq Line /\ g = [lines |-> g.lines, whole |-> g.whole]
      BY DEF File
    <2>2. f.lines = {x \in g.lines : x <= k} /\ f.whole /\ f \in File
      BY <1>2, <2>1 DEF File
    <2>3. \A x \in g.lines : x \in Int
      BY <2>1 DEF Line
    <2> QED
      BY <2>2, <2>3
  <1> QED
    BY <1>1, <1>2 DEF CopiesOf

LEMMA CopyInv == ASSUME LogInv, Copy \/ Copied PROVE LogInv'
  <1>1. /\ pc \in {"copy", "copied"}
        /\ pc = "copy" => pc' = "copied" /\ Copy
        /\ pc = "copied" => pc' = "unlink" /\ Copied
        /\ UNCHANGED <<day, buffer, pending, count, i, src, target, settled, dropped>>
    BY DEF Copy, Copied, locals
  <1>2. pc \in Aimed /\ pc' \in Aimed /\ i = 1
    BY <1>1 DEF Aimed, Rotating, LogInv, Goal
  <1>3. /\ disk[src] \in File /\ src \in Name /\ target # src /\ src = Base /\ disk[src].whole
    BY <1>2, MovingFacts
  <1>4. PICK f \in File :
           /\ disk' = [disk EXCEPT ![target] = f] /\ f.lines \subseteq disk[src].lines
           /\ pc = "copied" => \A x \in disk[src].lines : x \in missed' \/ (f.whole /\ x \in f.lines)
           /\ \A x \in missed : x \in disk[src].lines \/ x \in missed'
    <2>1. CASE pc = "copy"
      BY <1>1, <2>1, NameFacts DEF Copy
    <2>2. CASE pc = "copied"
      <3>1. PICK f \in CopiesOf(disk[src]) :
               /\ disk' = [disk EXCEPT ![target] = f]
               /\ missed' = (missed \ disk[src].lines) \cup (disk[src].lines \ f.lines)
        BY <1>1, <2>2 DEF Copied
      <3> QED
        BY <2>2, <3>1, <1>3, CopyFacts
    <2> QED
      BY <1>1, <2>1, <2>2
  <1>5. /\ LogTypes' /\ BaseIsWhole' /\ NothingAhead' /\ Vacant' /\ Source'
        /\ disk'[target] = f /\ \A n \in Name \ {target} : disk'[n] = disk[n]
        /\ \E d \in Day : d <= day /\ target = <<d, i>>
    BY <1>1, <1>2, <1>4, TargetOnly
  <1>6. Goal'
    BY <1>1, <1>2, <1>3, <1>4, <1>5 DEF Goal, Aimed, Started, Rotating
  <1>7. \A n \in Whole \ {target} : n \in Whole' /\ disk'[n] = disk[n]
    BY <1>5 DEF Whole, path_exists
  <1>8. src \in Whole \ {target}
    BY <1>3, NameFacts DEF Whole, path_exists
  <1>9. disk[target] = NoFile \/ disk[target].lines \subseteq disk[src].lines
    BY <1>1 DEF LogInv, Goal, Started
  <1>10. NothingLost'
    <2> SUFFICES ASSUME NEW x \in settled, x \notin dropped, x \notin missed'
                 PROVE  \E n \in Whole' : x \in disk'[n].lines
      BY <1>1 DEF NothingLost
    <2>1. CASE x \in disk[src].lines
      BY <1>7, <1>8, <2>1
    <2>2. CASE x \notin disk[src].lines
      <3>1. x \notin missed
        BY <1>4, <2>2
      <3>2. PICK n \in Whole : x \in disk[n].lines
        BY <3>1 DEF LogInv, NothingLost
      <3>3. n # target
        BY <1>9, <2>2, <3>2 DEF Whole, path_exists
      <3> QED
        BY <1>7, <3>2, <3>3
    <2> QED
      BY <2>1, <2>2
  <1> QED
    BY <1>5, <1>6, <1>10 DEF LogInv

\* The source is gone: renamed, or removed after it was copied.
LEMMA MovedInv == ASSUME LogInv, rename \/ Unlink PROVE LogInv'
  <1>1. /\ pc \in {"rename", "unlink"} /\ pc' = "look" /\ i' = i - 1 /\ src' = Base /\ target' = Base
        /\ UNCHANGED <<day, buffer, pending, count, settled, dropped, missed>>
        /\ pc = "rename" => disk' = [disk EXCEPT ![target] = disk[src], ![src] = NoFile]
        /\ pc = "unlink" => disk' = [disk EXCEPT ![src] = NoFile] /\ disk[target] \in File
    BY DEF rename, Unlink, Moved, LogInv, Goal
  <1>2. pc \in Aimed
    BY <1>1 DEF Aimed, Rotating
  <1>3. /\ i \in 1 .. MaxFiles /\ disk[src] \in File /\ src \in Name /\ target \in Name
        /\ target # src /\ target # Base
        /\ i = 1 => src = Base
        /\ i > 1 => src # Base
    BY <1>2, MovingFacts
  <1>4. /\ disk'[target] = (IF pc = "rename" THEN disk[src] ELSE disk[target])
        /\ disk'[target] \in File /\ disk'[src] = NoFile
        /\ \A n \in Name \ {src, target} : disk'[n] = disk[n]
        /\ disk' \in [Name -> File \cup {NoFile}]
    BY <1>1, <1>3 DEF LogInv, LogTypes
  <1>5. PICK d \in Day : d <= day /\ target = <<d, i>>
    BY <1>2 DEF LogInv, Goal
  <1>6. i - 1 \in 0 .. MaxFiles
    BY <1>3, LogAssumption
  <1>7. LogTypes' /\ BaseIsWhole' /\ Source' /\ Goal'
    BY <1>1, <1>3, <1>4, <1>6, NameFacts
       DEF LogInv, LogTypes, BaseIsWhole, Source, Goal, Rotating, Aimed, Started
  <1>8. NothingAhead'
    <2> SUFFICES ASSUME NEW e \in Day, NEW k \in 1 .. MaxFiles, e > day
                 PROVE  disk'[<<e, k>>] = NoFile
      BY <1>1 DEF NothingAhead
    <2>1. e # d
      BY <1>5 DEF Day, LogInv, LogTypes
    <2>2. <<e, k>> # target /\ <<e, k>> \in Name
      BY <1>5, <2>1, NameFacts
    <2> QED
      BY <1>4, <2>2 DEF LogInv, NothingAhead
  <1>9. Vacant'
    <2> SUFFICES ASSUME i - 1 \in 1 .. MaxFiles
                 PROVE  disk'[<<day, i - 1>>] = NoFile
      BY <1>1 DEF Vacant
    <2>1. i > 1 /\ i - 1 # i
      BY <1>3, LogAssumption
    <2>2. PICK e \in Day : /\ e <= day /\ src = <<e, i - 1>>
                           /\ \A g \in Day : g > e => disk[<<g, i - 1>>] = NoFile
      BY <1>2, <2>1 DEF LogInv, Source, Aimed
    <2>3. day \in Day /\ <<day, i - 1>> \in Name /\ <<day, i - 1>> # target
      BY <1>5, <2>1, NameFacts DEF LogInv, LogTypes
    <2>4. CASE e = day
      BY <1>4, <2>2, <2>4
    <2>5. CASE e # day
      <3>1. day > e
        BY <2>2, <2>3, <2>5 DEF Day
      <3>2. disk[<<day, i - 1>>] = NoFile
        BY <2>2, <2>3, <3>1
      <3> QED
        BY <1>4, <2>3, <3>2
    <2> QED
      BY <2>4, <2>5
  <1>10. NothingLost'
    <2> SUFFICES ASSUME NEW x \in settled, x \notin dropped, x \notin missed
                 PROVE  \E n \in Whole' : x \in disk'[n].lines
      BY <1>1 DEF NothingLost
    <2>1. PICK n \in Whole : x \in disk[n].lines
      BY DEF LogInv, NothingLost
    <2>2. CASE n \notin {src, target}
      BY <2>1, <2>2, <1>4 DEF Whole, path_exists
    <2>3. CASE n = target
      <3>1. pc = "unlink"
        BY <1>1, <2>1, <2>3 DEF LogInv, Goal, Whole, path_exists
      <3> QED
        BY <2>1, <2>3, <3>1, <1>4 DEF Whole, path_exists
    <2>4. CASE n = src /\ pc = "rename"
      BY <2>1, <2>4, <1>3, <1>4 DEF Whole, path_exists
    <2>5. CASE n = src /\ pc = "unlink"
      <3>1. disk[target].whole /\ x \in disk[target].lines
        BY <2>1, <2>5 DEF LogInv, Goal
      <3>2. disk'[target] = disk[target] /\ disk'[target] # NoFile
        BY <1>4, <2>5, NameFacts
      <3> QED
        BY <3>1, <3>2, <1>3 DEF Whole, path_exists
    <2> QED
      BY <1>1, <2>2, <2>3, <2>4, <2>5
  <1> QED
    BY <1>7, <1>8, <1>9, <1>10 DEF LogInv

LEMMA LogNext == ASSUME LogInv, [Next]_vars PROVE LogInv'
  <1>0. /\ LogTypes /\ Base \in Name /\ 0 \in 0 .. MaxFiles
        /\ \A n \in Name : path_exists(n) => disk[n] \in File
    BY NameFacts, LogAssumption DEF LogInv, LogTypes, path_exists
  <1>1. CASE Open
    <2>1. CASE path_exists(Base)
      BY <1>0, <1>1, <2>1, IdleInv DEF Open, locals, LogTypes, Rotating, LogInv, BaseIsWhole
    <2>2. CASE ~path_exists(Base)
      BY <1>0, <1>1, <2>2, CreatedInv DEF Open, locals, LogTypes
    <2> QED
      BY <2>1, <2>2
  <1>2. CASE Log
    <2>1. count + 1 \in Line /\ count' \in 0 .. MaxLine
      BY <1>0, <1>2, LogAssumption DEF Log, LogTypes, Line
    <2>2. /\ pc' = "running" => disk[Base] \in File
          /\ buffer' # {} => pc' \in {"running", "close"} /\ disk[Base] \in File
      BY <1>2 DEF LogInv, BaseIsWhole, Log
    <2>3. /\ UNCHANGED <<day, disk, i, src, target, settled, dropped, missed>>
          /\ pc' \in {"running", "closed", "close"}
          /\ buffer' \subseteq buffer \cup {count + 1} /\ pending' \subseteq pending \cup {count + 1}
      BY <1>2 DEF Log, locals
    <2> QED
      BY <1>0, <2>1, <2>2, <2>3, IdleInv DEF LogTypes, Rotating
  <1>3. CASE Flush
    BY <1>0, <1>3, FlushesInv DEF Flush, locals, LogTypes, LogInv, BaseIsWhole
  <1>4. CASE Crash
    BY <1>0, <1>4, IdleInv DEF Crash, NoLocals, LogTypes, Rotating
  <1>5. CASE Close
    <2>1. CASE disk[Base] \in File
      BY <1>0, <1>5, <2>1, FlushesInv DEF Close, LogTypes
    <2>2. CASE disk[Base] \notin File
      <3>1. UNCHANGED <<day, disk, settled, dropped, missed, buffer, pending, count, src, target>> /\ buffer = {}
        BY <1>5, <2>2, NothingToFlush DEF Close
      <3>2. pc' = "look" /\ i' = MaxFiles /\ MaxFiles \in 0 .. MaxFiles
        BY <1>5, LogAssumption DEF Close
      <3> QED
        BY <1>0, <3>1, <3>2, IdleInv DEF LogTypes
    <2> QED
      BY <2>1, <2>2
  <1>6. CASE Rotated
    BY <1>0, <1>6, IdleInv DEF Rotated, locals, LogTypes, Rotating, LogInv, BaseIsWhole
  <1>7. CASE Reopen
    <2>1. CASE path_exists(Base)
      BY <1>0, <1>7, <2>1, IdleInv DEF Reopen, NoLocals, LogTypes, Rotating
    <2>2. CASE ~path_exists(Base)
      BY <1>0, <1>7, <2>2, CreatedInv DEF Reopen, NoLocals, LogTypes
    <2> QED
      BY <2>1, <2>2
  <1>9. CASE ReopenFails
    <2>1. /\ pc' \in {"down", "closed"} /\ buffer' = {}
          /\ UNCHANGED <<day, disk, count, settled, dropped, missed>>
      BY <1>9 DEF ReopenFails, LogInv, BaseIsWhole
    <2>2. pending' = {} /\ i' = 0 /\ src' = Base /\ target' = Base
      BY <1>9 DEF ReopenFails, NoLocals
    <2> QED
      BY <1>0, <2>1, <2>2, IdleInv DEF LogTypes, Rotating
  <1>8. CASE UNCHANGED vars
    BY <1>8 DEF vars, LogInv, LogTypes, BaseIsWhole, NothingAhead, Vacant, Source, Goal, NothingLost, Whole, path_exists
  <1> QED
    BY <1>1, <1>2, <1>3, <1>4, <1>5, <1>6, <1>7, <1>8, <1>9, MidnightInv, LookInv, TargetInv, RemoveInv, CopyInv,
       MovedInv, FailInv, RetryInv DEF Next, Rotation

\* However many archives, dates and lines there are, and wherever rotations fail, are
\* retried and given up or the server is killed: a line that was flushed stays in a
\* complete file until its archive is the last of a full date, unless it is one that
\* compress left out of its copy without noticing (file_log_sink.cpp:157-161).
THEOREM LogsAreKept == Spec => []NothingLost
  <1>1. LogInv => NothingLost
    BY DEF LogInv
  <1>2. LogInv /\ [Next]_vars => LogInv'
    BY LogNext
  <1> QED
    BY <1>1, <1>2, LogInit, PTL DEF Spec

-----------------------------------------------------------------------------
(* The order of the archives *)

\* m is to be newer than n: latest.log, or a lower number of the same date.
Newer(m, n) == m = Base \/ (n # Base /\ m[1] = n[1] /\ m[2] < n[2])

\* What the newer file holds beyond the older one was logged later.
After(old, new) == \A x \in old.lines, y \in new.lines \ old.lines : x < y

\* Lines are numbered as they are logged.
Counted ==
    /\ \A n \in Name : disk[n].lines \subseteq 1 .. count
    /\ buffer \subseteq 1 .. count /\ pending \subseteq 1 .. count

\* What has not been flushed was logged after all that is archived, and the message that
\* waits for a rotation after all that is in latest.log, too.
Waiting ==
    /\ pc \notin {"running", "close"} => buffer = {}
    /\ pc \in {"down", "running", "closed"} => pending = {}
    /\ \A n \in Archive : \A x \in disk[n].lines, y \in buffer \cup pending : x < y
    /\ \A x \in disk[Base].lines \cup buffer, y \in pending : x < y

\* A file that is moved to the archives of a new date, since midnight passed between
\* two looks at the clock, comes there first.
NewDates ==
    pc \in Rotating /\ i > 1 =>
        /\ \A g \in Day : g > src[1] => \A k \in 1 .. MaxFiles : disk[<<g, k>>] = NoFile
        /\ pc \in Aimed => src[1] <= target[1]

LogOrder == Counted /\ Waiting /\ NewDates /\ ArchivesInOrder

-----------------------------------------------------------------------------
\* ArchivesInOrder, file by file.
LEMMA InOrder ==
    ASSUME ArchivesInOrder, NEW m \in Whole, NEW n \in Whole, Newer(m, n)
    PROVE  After(disk[n], disk[m])
  BY DEF ArchivesInOrder, Newer, After

LEMMA InOrderNext ==
    ASSUME \A m, n \in Whole' : Newer(m, n) => After(disk'[n], disk'[m])
    PROVE  ArchivesInOrder'
  BY DEF ArchivesInOrder, Newer, After

LEMMA OrderInit == Init => LogOrder
  <1> SUFFICES ASSUME Init PROVE LogOrder
    OBVIOUS
  <1>1. \A n \in Name : disk[n] = NoFile /\ disk[n].lines = {}
    BY NameFacts DEF Init
  <1>2. Archive \subseteq Name /\ Base \in Name
    BY DEF Name
  <1>3. buffer = {} /\ pending = {} /\ pc = "down"
    BY DEF Init
  <1>4. Counted /\ Waiting
    BY <1>1, <1>2, <1>3 DEF Counted, Waiting
  <1>5. NewDates
    BY <1>3 DEF NewDates, Rotating, Aimed
  <1>6. ArchivesInOrder
    BY <1>1 DEF ArchivesInOrder, Whole, path_exists
  <1> QED
    BY <1>4, <1>5, <1>6 DEF LogOrder

\* The files stay as they are.
LEMMA SameDisk ==
    ASSUME ArchivesInOrder, disk' = disk
    PROVE  ArchivesInOrder' /\ Whole' = Whole
  BY DEF ArchivesInOrder, Whole, path_exists

\* Steps that leave the files and the lines alone.
LEMMA StillOrder ==
    ASSUME LogInv, LogOrder, UNCHANGED <<disk, count>>,
           \/ UNCHANGED <<buffer, pending>> /\ buffer = {} /\ pc' \notin {"down", "running", "closed"}
           \/ UNCHANGED <<buffer, pending, pc>>
           \/ buffer' = {} /\ pending' = {}
           \/ buffer = {} /\ buffer' = pending /\ pending' = {} /\ pc' = "running"
           \/ buffer = {} /\ pending = {} /\ buffer' = {} /\ pending' = {},
           \/ /\ pc' \in Rotating /\ pc \in Rotating /\ UNCHANGED <<i, src>>
              /\ \/ pc' \in Aimed => pc \in Aimed /\ UNCHANGED target
                 \/ i > 1 => src[1] <= target'[1]
           \/ pc' = "target" /\ i' = i /\ (i > 1 => src'[1] = day)
           \/ pc' \notin Rotating
    PROVE  LogOrder'
  <1>1. ArchivesInOrder'
    BY SameDisk DEF LogOrder
  <1>2. Counted'
    BY DEF LogOrder, Counted
  <1>3. Waiting'
    BY DEF LogOrder, Waiting
  <1>4. NewDates'
    <2>1. CASE /\ pc' \in Rotating /\ pc \in Rotating /\ UNCHANGED <<i, src>>
               /\ \/ pc' \in Aimed => pc \in Aimed /\ UNCHANGED target
                  \/ i > 1 => src[1] <= target'[1]
      BY <2>1 DEF LogOrder, NewDates
    <2>2. CASE pc' = "target" /\ i' = i /\ (i > 1 => src'[1] = day)
      BY <2>2 DEF LogInv, NothingAhead, NewDates, Aimed
    <2>3. CASE pc' \notin Rotating
      BY <2>3 DEF NewDates
    <2> QED
      BY <2>1, <2>2, <2>3
  <1> QED
    BY <1>1, <1>2, <1>3, <1>4 DEF LogOrder

\* A new line.
LEMMA LogOrdered == ASSUME LogInv, LogOrder, Log PROVE LogOrder'
  <1>1. /\ pc \in {"running", "closed"} /\ count' = count + 1 /\ UNCHANGED disk
        /\ \/ pc' = "close" /\ pending' = {count + 1} /\ buffer' = buffer
           \/ pc = "running" /\ pc' = "running" /\ pending' = pending /\ buffer' = buffer \cup {count + 1}
           \/ pc = "closed" /\ pc' = "closed" /\ pending' = pending /\ buffer' = buffer
    BY DEF Log
  <1>2. count \in Nat /\ Archive \subseteq Name /\ Base \in Name
    BY LogAssumption DEF LogInv, LogTypes, Name
  <1>3. pending = {}
    BY <1>1 DEF LogOrder, Waiting
  <1>4. \A x \in 1 .. count : x \in 1 .. count + 1 /\ x < count + 1
    BY <1>2
  <1>5. count + 1 \in 1 .. count + 1
    BY <1>2
  <1>6. \A n \in Name : disk[n].lines \subseteq 1 .. count
    BY DEF LogOrder, Counted
  <1>7. buffer \subseteq 1 .. count
    BY DEF LogOrder, Counted
  <1>8. Counted'
    <2>1. \A n \in Name : disk'[n].lines \subseteq 1 .. count'
      BY <1>1, <1>4, <1>6
    <2>2. buffer' \subseteq 1 .. count' /\ pending' \subseteq 1 .. count'
      BY <1>1, <1>3, <1>4, <1>5, <1>7
    <2> QED
      BY <2>1, <2>2 DEF Counted
  <1>9. Waiting'
    <2>1. ASSUME NEW n \in Archive, NEW x \in disk'[n].lines, NEW y \in buffer' \cup pending' PROVE x < y
      <3>1. x \in disk[n].lines /\ x \in 1 .. count
        BY <1>1, <1>2, <1>6, <2>1
      <3>2. y \in buffer \/ y = count + 1
        BY <1>1, <1>3, <2>1
      <3>3. CASE y \in buffer
        BY <3>1, <3>3 DEF LogOrder, Waiting
      <3>4. CASE y = count + 1
        BY <3>1, <3>4, <1>4
      <3> QED
        BY <3>2, <3>3, <3>4
    <2>2. ASSUME NEW x \in disk'[Base].lines \cup buffer', NEW y \in pending' PROVE x < y
      <3>1. y = count + 1 /\ buffer' = buffer
        BY <1>1, <1>3, <2>2
      <3>2. x \in 1 .. count
        BY <3>1, <1>1, <1>2, <1>6, <1>7, <2>2
      <3> QED
        BY <3>1, <3>2, <1>4
    <2>3. /\ pc' \notin {"running", "close"} => buffer' = {}
          /\ pc' \in {"down", "running", "closed"} => pending' = {}
      BY <1>1, <1>3 DEF LogOrder, Waiting
    <2> QED
      BY <2>1, <2>2, <2>3 DEF Waiting
  <1>10. NewDates' /\ ArchivesInOrder'
    BY <1>1, SameDisk DEF NewDates, Rotating, LogOrder
  <1> QED
    BY <1>8, <1>9, <1>10 DEF LogOrder

\* latest.log comes into being: nothing is in it, and nothing is newer.
LEMMA CreatedOrder ==
    ASSUME LogInv, LogOrder, ~path_exists(Base), disk' = [disk EXCEPT ![Base] = Empty], UNCHANGED count,
           buffer = {}, pc' = "running", pending' = {}, buffer' = pending
    PROVE  LogOrder'
  <1>1. /\ disk'[Base] = Empty /\ \A n \in Name \ {Base} : disk'[n] = disk[n]
        /\ Base \in Name /\ Archive \subseteq Name
        /\ disk[Base].lines = {} /\ disk'[Base].lines = {}
    BY NameFacts DEF LogInv, LogTypes, path_exists, Name
  <1>2. \A n \in Archive : n # Base /\ disk'[n] = disk[n]
    BY <1>1, NameFacts DEF Archive
  <1>3. \A n \in Name : disk'[n].lines = disk[n].lines
    BY <1>1
  <1>4. Counted'
    BY <1>3 DEF LogOrder, Counted
  <1>5. Waiting'
    BY <1>1, <1>2 DEF LogOrder, Waiting
  <1>6. NewDates'
    BY DEF NewDates, Rotating
  <1>7. ASSUME NEW m \in Whole', NEW n \in Whole', Newer(m, n) PROVE After(disk'[n], disk'[m])
    <2>1. CASE m = Base
      BY <2>1, <1>1 DEF After
    <2>2. CASE m # Base
      <3>1. n # Base /\ m \in Whole /\ n \in Whole /\ disk'[m] = disk[m] /\ disk'[n] = disk[n]
        BY <2>2, <1>1, <1>7 DEF Newer, Whole, path_exists
      <3> QED
        BY <3>1, <1>7, InOrder DEF LogOrder
    <2> QED
      BY <2>1, <2>2
  <1>8. ArchivesInOrder'
    BY <1>7, InOrderNext
  <1> QED
    BY <1>4, <1>5, <1>6, <1>8 DEF LogOrder

\* The buffer goes to latest.log: all of it was logged after what is archived.
LEMMA FlushesOrder ==
    ASSUME LogInv, LogOrder, pc \in {"running", "close"}, disk[Base] \in File, Flushes,
           UNCHANGED <<pending, count>>,
           \/ pc' = "running" /\ pc = "running"
           \/ pc' = "look"
    PROVE  LogOrder'
  <1>1. disk[Base] \in File /\ disk[Base].whole /\ Base \in Name /\ Archive \subseteq Name
    BY NameFacts DEF LogInv, BaseIsWhole, Name
  <1>2. disk' = [disk EXCEPT ![Base].lines = disk[Base].lines \cup buffer] /\ buffer' = {}
    BY DEF Flushes, Flushed
  <1>3. /\ disk'[Base] = [disk[Base] EXCEPT !.lines = disk[Base].lines \cup buffer]
        /\ \A n \in Name \ {Base} : disk'[n] = disk[n]
    BY <1>1, <1>2 DEF LogInv, LogTypes
  <1>4. disk'[Base].lines = disk[Base].lines \cup buffer
    BY <1>1, <1>3 DEF File
  <1>5. \A n \in Archive : n # Base /\ disk'[n] = disk[n]
    BY <1>1, <1>3, NameFacts DEF Archive
  <1>6. Base \in Whole
    BY <1>1, NameFacts DEF Whole, path_exists
  <1>7. Counted'
    <2>1. \A n \in Name : disk'[n].lines \subseteq 1 .. count'
      BY <1>3, <1>4 DEF LogOrder, Counted
    <2> QED
      BY <2>1, <1>2 DEF LogOrder, Counted
  <1>8. Waiting'
    BY <1>2, <1>4, <1>5 DEF LogOrder, Waiting
  <1>9. NewDates'
    BY DEF NewDates, Rotating
  <1>10. ASSUME NEW m \in Whole', NEW n \in Whole', Newer(m, n) PROVE After(disk'[n], disk'[m])
    <2>1. CASE n = Base
      BY <2>1, <1>10 DEF Newer, After
    <2>2. CASE n # Base
      <3>1. n \in Whole /\ disk'[n] = disk[n] /\ n \in Archive
        BY <2>2, <1>3, <1>10 DEF Whole, path_exists, Name
      <3>2. CASE m = Base
        <4>1. After(disk[n], disk[Base])
          BY <3>1, <1>6, InOrder DEF LogOrder, Newer
        <4>2. \A x \in disk[n].lines, y \in buffer : x < y
          BY <3>1 DEF LogOrder, Waiting
        <4> QED
          BY <3>1, <3>2, <4>1, <4>2, <1>4 DEF After
      <3>3. CASE m # Base
        <4>1. m \in Whole /\ disk'[m] = disk[m]
          BY <3>3, <1>3, <1>10 DEF Whole, path_exists
        <4> QED
          BY <3>1, <4>1, <1>10, InOrder DEF LogOrder
      <3> QED
        BY <3>2, <3>3
    <2> QED
      BY <2>1, <2>2
  <1>11. ArchivesInOrder'
    BY <1>10, InOrderNext
  <1> QED
    BY <1>7, <1>8, <1>9, <1>11 DEF LogOrder

\* A file goes.
LEMMA GoneOrder ==
    ASSUME LogInv, LogOrder, NEW f \in Name, disk' = [disk EXCEPT ![f] = NoFile],
           UNCHANGED <<count, buffer, pending>>, pc \in Aimed, pc' \notin {"down", "running", "closed", "close"},
           pc' \in Rotating => pc' \in Aimed /\ UNCHANGED <<i, src, target>>
    PROVE  LogOrder'
  <1>1. /\ disk'[f] = NoFile /\ \A n \in Name \ {f} : disk'[n] = disk[n]
        /\ Base \in Name /\ Archive \subseteq Name
    BY NameFacts DEF LogInv, LogTypes, Name
  <1>2. \A n \in Name : disk'[n].lines \subseteq disk[n].lines /\ (disk[n] = NoFile => disk'[n] = NoFile)
    BY <1>1, NameFacts
  <1>3. Counted'
    BY <1>2 DEF LogOrder, Counted
  <1>4. Waiting'
    <2>1. pc \notin {"down", "running", "closed", "close"}
      BY DEF Aimed, Rotating
    <2> QED
      BY <1>1, <1>2, <2>1 DEF LogOrder, Waiting
  <1>5. NewDates'
    <2>1. \A g \in Day, k \in 1 .. MaxFiles : <<g, k>> \in Name
      BY NameFacts
    <2> QED
      BY <1>2, <2>1 DEF LogOrder, NewDates, Aimed
  <1>6. \A n \in Whole' : n \in Whole /\ disk'[n] = disk[n]
    BY <1>1, NameFacts DEF Whole, path_exists
  <1>7. ArchivesInOrder'
    BY <1>6, InOrder, InOrderNext DEF LogOrder
  <1> QED
    BY <1>3, <1>4, <1>5, <1>7 DEF LogOrder

\* A copy begins: it is not a complete file, and holds nothing yet.
LEMMA CopyOrder == ASSUME LogInv, LogOrder, Copy PROVE LogOrder'
  <1> DEFINE f == Torn
  <1>1. /\ pc = "copy" /\ pc' = "copied" /\ disk' = [disk EXCEPT ![target] = f]
        /\ UNCHANGED <<count, buffer, pending, i>>
    BY DEF Copy, locals
  <1>2. pc \in Aimed /\ i = 1
    BY <1>1 DEF Aimed, Rotating, LogInv, Goal
  <1>3. target \in Name /\ f.lines = {} /\ ~f.whole
    BY <1>2, MovingFacts, NameFacts
  <1> HIDE DEF f
  <1>4. disk'[target] = f /\ \A n \in Name \ {target} : disk'[n] = disk[n]
    BY <1>1, <1>3 DEF LogInv, LogTypes
  <1>5. Base \in Name /\ Archive \subseteq Name /\ \A n \in Name : disk'[n].lines \subseteq disk[n].lines
    BY <1>3, <1>4, NameFacts DEF Name
  <1>6. Counted'
    BY <1>1, <1>5 DEF LogOrder, Counted
  <1>7. Waiting'
    BY <1>1, <1>5 DEF LogOrder, Waiting
  <1>8. NewDates'
    BY <1>1, <1>2 DEF NewDates
  <1>9. \A n \in Whole' : n \in Whole /\ disk'[n] = disk[n]
    BY <1>3, <1>4 DEF Whole, path_exists
  <1>10. ArchivesInOrder'
    BY <1>9, InOrder, InOrderNext DEF LogOrder
  <1> QED
    BY <1>6, <1>7, <1>8, <1>10 DEF LogOrder

\* latest.log is copied as number 1, in whole or in its beginning: what is older than
\* latest.log is older than the copy, and what the copy lacks of it is newer.
LEMMA CopiedOrder == ASSUME LogInv, LogOrder, Copied PROVE LogOrder'
  <1>1. /\ pc = "copied" /\ pc' = "unlink"
        /\ UNCHANGED <<count, buffer, pending, i>>
    BY DEF Copied, locals
  <1>2. pc \in Aimed /\ i = 1
    BY <1>1 DEF Aimed, Rotating, LogInv, Goal
  <1>3. target \in Name /\ target # Base /\ src = Base /\ disk[Base].whole /\ disk[Base] \in File
    BY <1>2, MovingFacts
  <1>4. PICK d \in Day : target = <<d, 1>>
    BY <1>2 DEF LogInv, Goal
  <1>0. PICK f \in CopiesOf(disk[Base]) : disk' = [disk EXCEPT ![target] = f]
    BY <1>3 DEF Copied
  <1>5. /\ disk'[target] = f /\ \A n \in Name \ {target} : disk'[n] = disk[n]
        /\ f.lines \subseteq disk[Base].lines
        /\ \A x \in f.lines, y \in disk[Base].lines \ f.lines : x < y
    BY <1>0, <1>3, CopyFacts DEF LogInv, LogTypes
  <1>6. Base \in Name /\ Archive \subseteq Name /\ Base \in Whole
    BY <1>3, NameFacts DEF Whole, path_exists, Name
  <1>7. Counted'
    BY <1>1, <1>3, <1>5, <1>6 DEF LogOrder, Counted
  <1>8. Waiting'
    <2>1. buffer = {} /\ \A x \in disk[Base].lines, y \in pending : x < y
      BY <1>1 DEF LogOrder, Waiting
    <2>2. ASSUME NEW n \in Archive, NEW x \in disk'[n].lines, NEW y \in pending PROVE x < y
      <3>1. CASE n = target
        BY <3>1, <2>1, <2>2, <1>5
      <3>2. CASE n # target
        BY <3>2, <2>2, <1>5, <1>6 DEF LogOrder, Waiting
      <3> QED
        BY <3>1, <3>2
    <2> QED
      BY <1>1, <1>3, <1>5, <1>6, <2>1, <2>2 DEF Waiting
  <1>9. NewDates'
    BY <1>1, <1>2 DEF NewDates
  <1>10. \A n \in Whole' \ {target} : n \in Whole /\ disk'[n] = disk[n]
    BY <1>5 DEF Whole, path_exists
  <1>11. ASSUME NEW m \in Whole', NEW n \in Whole', Newer(m, n) PROVE After(disk'[n], disk'[m])
    <2>1. CASE n = target
      <3>1. CASE m = Base
        BY <2>1, <3>1, <1>3, <1>5, <1>6 DEF After
      <3>2. CASE m # Base
        <4>1. m[2] < 1
          BY <2>1, <3>2, <1>4, <1>11 DEF Newer
        <4>2. m \in Archive
          BY <3>2, <1>11 DEF Whole, Name
        <4>3. m[2] \in 1 .. MaxFiles
          BY <4>2 DEF Archive
        <4> QED
          BY <4>1, <4>3, LogAssumption
      <3> QED
        BY <3>1, <3>2
    <2>2. CASE n # target /\ m = target
      <3>1. Newer(Base, n) /\ n \in Whole /\ disk'[n] = disk[n]
        BY <2>2, <1>10, <1>11 DEF Newer
      <3>2. After(disk[n], disk[Base])
        BY <3>1, <1>6, InOrder DEF LogOrder
      <3> QED
        BY <2>2, <3>1, <3>2, <1>5 DEF After
    <2>3. CASE n # target /\ m # target
      BY <2>3, <1>10, <1>11, InOrder DEF LogOrder
    <2> QED
      BY <2>1, <2>2, <2>3
  <1>12. ArchivesInOrder'
    BY <1>11, InOrderNext
  <1> QED
    BY <1>7, <1>8, <1>9, <1>12 DEF LogOrder

\* An archive takes the next number, of its date or of a new one that has none yet.
LEMMA RenameOrder == ASSUME LogInv, LogOrder, rename PROVE LogOrder'
  <1>1. /\ pc = "rename" /\ pc' = "look"
        /\ disk' = [disk EXCEPT ![target] = disk[src], ![src] = NoFile]
        /\ UNCHANGED <<count, buffer, pending>>
    BY DEF rename, Moved
  <1>2. pc \in Aimed /\ pc \in Rotating /\ i > 1 /\ i \in 1 .. MaxFiles
    BY <1>1, MovingFacts DEF Aimed, Rotating, LogInv, Goal
  <1>3. target \in Name /\ src \in Name /\ target # src /\ target # Base /\ src # Base
    BY <1>2, MovingFacts
  <1>4. /\ disk'[target] = disk[src] /\ disk'[src] = NoFile
        /\ \A n \in Name \ {src, target} : disk'[n] = disk[n]
    BY <1>1, <1>3 DEF LogInv, LogTypes
  <1>5. PICK d \in Day : target = <<d, i>>
    BY <1>2 DEF LogInv, Goal
  <1>6. PICK e \in Day : src = <<e, i - 1>>
    BY <1>2 DEF LogInv, Source
  <1>7. e <= d /\ \A g \in Day : g > e => \A k \in 1 .. MaxFiles : disk[<<g, k>>] = NoFile
    BY <1>2, <1>5, <1>6 DEF LogOrder, NewDates
  <1>8. Base \in Name /\ Archive \subseteq Name /\ target \in Archive /\ src \in Archive
    BY <1>3, NameFacts DEF Name
  <1>9. Counted'
    BY <1>1, <1>3, <1>4, NameFacts DEF LogOrder, Counted
  <1>10. Waiting'
    <2>1. \A n \in Archive : \A x \in disk'[n].lines, y \in buffer \cup pending : x < y
      <3> SUFFICES ASSUME NEW n \in Archive, NEW x \in disk'[n].lines, NEW y \in buffer \cup pending
                   PROVE  x < y
        OBVIOUS
      <3>1. CASE n = target
        BY <3>1, <1>4, <1>8 DEF LogOrder, Waiting
      <3>2. CASE n = src
        BY <3>2, <1>4, NameFacts
      <3>3. CASE n \notin {src, target}
        BY <3>3, <1>4, <1>8 DEF LogOrder, Waiting
      <3> QED
        BY <3>1, <3>2, <3>3
    <2>2. disk'[Base] = disk[Base]
      BY <1>3, <1>4, <1>8
    <2> QED
      BY <1>1, <2>1, <2>2 DEF LogOrder, Waiting
  <1>11. NewDates'
    BY <1>1 DEF NewDates, Rotating
  <1>12. \A n \in Whole' \ {target} : n \in Whole /\ n # src /\ disk'[n] = disk[n]
    BY <1>4 DEF Whole, path_exists
  <1>13. target \in Whole' => src \in Whole
    BY <1>3, <1>4 DEF Whole, path_exists
  <1>14. ASSUME NEW n \in Whole, n \in Archive, n[1] = d PROVE d = e
    <2>1. n = <<d, n[2]>> /\ n[2] \in 1 .. MaxFiles
      BY <1>14 DEF Archive
    <2>2. disk[n] # NoFile
      BY <1>14 DEF Whole, path_exists
    <2>3. ~(d > e)
      BY <2>1, <2>2, <1>7
    <2> QED
      BY <2>3, <1>7 DEF Day
  <1>15. ASSUME NEW m \in Whole', NEW n \in Whole', Newer(m, n) PROVE After(disk'[n], disk'[m])
    <2>0. i \in Int /\ \A a \in Archive : a[2] \in Int /\ a = <<a[1], a[2]>>
      BY <1>2 DEF Archive
    <2>1. CASE n = target /\ m = target
      BY <2>0, <2>1, <1>3, <1>5, <1>15 DEF Newer
    <2>2. CASE n = target /\ m # target
      <3>1. m \in Whole /\ m # src /\ disk'[m] = disk[m] /\ src \in Whole
        BY <2>2, <1>12, <1>13, <1>15
      <3>2. Newer(m, src)
        <4>1. CASE m = Base
          BY <4>1 DEF Newer
        <4>2. CASE m # Base
          <5>1. m \in Archive /\ m[1] = d /\ m[2] < i
            BY <2>2, <4>2, <3>1, <1>5, <1>15 DEF Newer, Whole, Name
          <5>2. d = e
            BY <5>1, <3>1, <1>14
          <5>3. m[2] # i - 1
            BY <5>1, <5>2, <2>0, <3>1, <1>6
          <5>4. m[2] < i - 1
            BY <5>1, <5>3, <2>0
          <5> QED
            BY <5>1, <5>2, <5>4, <1>3, <1>6 DEF Newer
        <4> QED
          BY <4>1, <4>2
      <3>3. After(disk[src], disk[m])
        BY <3>1, <3>2, InOrder DEF LogOrder
      <3> QED
        BY <2>2, <3>1, <3>3, <1>4
    <2>3. CASE n # target /\ m = target
      <3>1. n \in Whole /\ disk'[n] = disk[n] /\ src \in Whole
        BY <2>3, <1>12, <1>13, <1>15
      <3>2. n # Base /\ n[1] = d /\ i < n[2]
        BY <2>3, <1>3, <1>5, <1>15 DEF Newer
      <3>3. n \in Archive
        BY <3>1, <3>2 DEF Whole, Name
      <3>4. d = e /\ i - 1 < n[2]
        BY <3>1, <3>2, <3>3, <2>0, <1>14
      <3>5. Newer(src, n)
        BY <3>2, <3>4, <1>6 DEF Newer
      <3>6. After(disk[n], disk[src])
        BY <3>1, <3>5, InOrder DEF LogOrder
      <3> QED
        BY <2>3, <3>1, <3>6, <1>4
    <2>4. CASE n # target /\ m # target
      BY <2>4, <1>12, <1>15, InOrder DEF LogOrder
    <2> QED
      BY <2>1, <2>2, <2>3, <2>4
  <1>16. ArchivesInOrder'
    BY <1>15, InOrderNext
  <1> QED
    BY <1>9, <1>10, <1>11, <1>16 DEF LogOrder

LEMMA OrderNext == ASSUME LogInv, LogOrder, [Next]_vars PROVE LogOrder'
  <1>0. /\ LogTypes /\ Base \in Name
        /\ pc \notin {"running", "close"} => buffer = {}
        /\ pc \in {"down", "running", "closed"} => pending = {}
    BY NameFacts DEF LogInv, LogOrder, Waiting
  <1>1. CASE Midnight
    <2>1. UNCHANGED <<disk, count, buffer, pending, pc, i, src, target>>
      BY <1>1 DEF Midnight, locals
    <2>2. pc' \in Rotating => pc \in Rotating /\ (pc' \in Aimed => pc \in Aimed)
      BY <2>1
    <2> QED
      BY <2>1, <2>2, StillOrder
  <1>2. CASE Open
    <2>1. CASE path_exists(Base)
      BY <1>0, <1>2, <2>1, StillOrder DEF Open, Rotating
    <2>2. CASE ~path_exists(Base)
      BY <1>0, <1>2, <2>2, CreatedOrder DEF Open
    <2> QED
      BY <2>1, <2>2
  <1>3. CASE Log
    BY <1>3, LogOrdered
  <1>4. CASE Flush
    BY <1>4, FlushesOrder DEF Flush, LogInv, BaseIsWhole
  <1>5. CASE Crash
    <2>1. UNCHANGED <<disk, count>> /\ buffer' = {} /\ pending' = {} /\ pc' \notin Rotating
      BY <1>5 DEF Crash, Rotating
    <2> QED
      BY <2>1, StillOrder
  <1>6. CASE Close
    <2>1. pc = "close" /\ pc' = "look" /\ Flushes /\ UNCHANGED <<pending, count>>
      BY <1>6 DEF Close
    <2>2. CASE disk[Base] \in File
      BY <2>1, <2>2, FlushesOrder
    <2>3. CASE disk[Base] \notin File
      <3>1. UNCHANGED <<disk, buffer>> /\ buffer = {}
        BY <2>1, <2>3, NothingToFlush
      <3> QED
        BY <2>1, <3>1, StillOrder DEF Rotating
    <2> QED
      BY <2>2, <2>3
  <1>7. CASE Look
    <2> DEFINE from == calcFilename(i - 1)
    <2>1. UNCHANGED <<disk, count, buffer, pending>> /\ pc = "look" /\ pc' \in {"target", "look"}
      BY <1>7 DEF Look
    <2>2. pc' = "target" => i' = i /\ src' = from
      BY <1>7 DEF Look
    <2>3. i > 1 => from[1] = day
      BY LogAssumption DEF calcFilename, LogInv, LogTypes
    <2> HIDE DEF from
    <2> QED
      BY <1>0, <2>1, <2>2, <2>3, StillOrder DEF Rotating
  <1>8. CASE Target
    <2>1. UNCHANGED <<disk, count, buffer, pending, i, src, day>> /\ pc = "target" /\ pc' = "remove"
      BY <1>8 DEF Target
    <2>2. i \in 1 .. MaxFiles /\ target' = <<day, i>>
      BY <1>8, <2>1, LogAssumption DEF Target, calcFilename, LogInv, Source, Rotating
    <2>3. i > 1 => src[1] <= target'[1]
      BY <2>1, <2>2 DEF LogInv, Source, Rotating
    <2> QED
      BY <1>0, <2>1, <2>3, StillOrder DEF Rotating
  <1>9. CASE Remove
    <2>1. /\ disk' = [disk EXCEPT ![target] = NoFile] /\ pc = "remove" /\ pc' \in {"copy", "rename"}
          /\ UNCHANGED <<count, buffer, pending, i, src, target>>
      BY <1>9 DEF Remove, locals
    <2> QED
      BY <1>0, <2>1, GoneOrder DEF LogTypes, Aimed, Rotating
  <1>10. CASE rename
    BY <1>10, RenameOrder
  <1>11. CASE Copy
    BY <1>11, CopyOrder
  <1>12. CASE Copied
    BY <1>12, CopiedOrder
  <1>13. CASE Unlink
    <2>1. /\ disk' = [disk EXCEPT ![src] = NoFile] /\ pc = "unlink" /\ pc' = "look"
          /\ UNCHANGED <<count, buffer, pending>>
      BY <1>13 DEF Unlink, Moved
    <2> QED
      BY <1>0, <2>1, GoneOrder DEF LogTypes, Aimed, Rotating
  <1>14. CASE Fail
    <2>1. /\ UNCHANGED <<disk, count, buffer, pending, i, src, target>>
          /\ pc \in Aimed /\ pc' = "failed" /\ pc \in Rotating /\ pc \notin {"running", "close"}
      BY <1>14 DEF Fail, locals, Aimed, Rotating
    <2> QED
      BY <1>0, <2>1, StillOrder DEF Rotating
  <1>15. CASE Retry
    <2>1. /\ UNCHANGED <<disk, count, buffer, pending, i, src, target>>
          /\ pc = "failed" /\ pc' \in {"remove", "reopen"}
      BY <1>15 DEF Retry, GiveUp
    <2>2. pc \in Aimed /\ pc \in Rotating
      BY <2>1 DEF Aimed, Rotating
    <2>3. CASE pc' = "remove"
      BY <1>0, <2>1, <2>2, <2>3, StillOrder DEF Rotating
    <2>4. CASE pc' = "reopen"
      BY <1>0, <2>1, <2>4, StillOrder DEF Rotating
    <2> QED
      BY <2>1, <2>3, <2>4
  <1>16. CASE Rotated
    <2>1. UNCHANGED <<disk, count, buffer, pending>> /\ pc = "look" /\ pc' = "reopen"
      BY <1>16 DEF Rotated
    <2> QED
      BY <1>0, <2>1, StillOrder DEF Rotating
  <1>17. CASE Reopen
    <2>1. /\ pc = "reopen" /\ pc' = "running" /\ count' = count
          /\ buffer = {} /\ buffer' = pending /\ pending' = {}
      BY <1>0, <1>17 DEF Reopen
    <2>2. CASE path_exists(Base)
      <3>1. disk' = disk
        BY <1>17, <2>2 DEF Reopen
      <3> QED
        BY <2>1, <3>1, StillOrder DEF Rotating
    <2>3. CASE ~path_exists(Base)
      <3>1. disk' = [disk EXCEPT ![Base] = Empty]
        BY <1>17, <2>3 DEF Reopen
      <3> QED
        BY <2>1, <2>3, <3>1, CreatedOrder
    <2> QED
      BY <2>2, <2>3
  <1>19. CASE ReopenFails
    <2>1. UNCHANGED <<disk, count>> /\ pending' = {} /\ buffer' = {} /\ pc' \notin Rotating
      BY <1>0, <1>19 DEF ReopenFails, Rotating
    <2> QED
      BY <2>1, StillOrder
  <1>18. CASE UNCHANGED vars
    <2>1. UNCHANGED <<disk, count, buffer, pending, pc, i, src, target>>
      BY <1>18 DEF vars
    <2>2. pc' \in Rotating => pc \in Rotating /\ (pc' \in Aimed => pc \in Aimed)
      BY <2>1
    <2> QED
      BY <2>1, <2>2, StillOrder
  <1> QED
    BY <1>1, <1>2, <1>3, <1>4, <1>5, <1>6, <1>7, <1>8, <1>9, <1>10, <1>11, <1>12, <1>13, <1>14,
       <1>15, <1>16, <1>17, <1>18, <1>19 DEF Next, Rotation

\* However many archives, dates and lines there are, wherever rotations fail, are retried
\* and given up, the server is killed or midnight passes: the complete archives of a date
\* are in the order of their numbers, and latest.log is newer than every one of them
\* (calcFilename, rotate).
THEOREM LogsAreInOrder == Spec => []ArchivesInOrder
  <1>1. LogInv /\ LogOrder /\ [Next]_vars => LogInv' /\ LogOrder'
    BY LogNext, OrderNext
  <1>2. LogOrder => ArchivesInOrder
    BY DEF LogOrder
  <1> QED
    BY <1>1, <1>2, LogInit, OrderInit, PTL DEF Spec
=============================================================================
