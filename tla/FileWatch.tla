----------------------------- MODULE FileWatch ------------------------------
(***************************************************************************)
(* Programs that meet in a file: 5-file-writer appends lines to it, and    *)
(* 4-file-watcher or 6-async-tail-f watches it: a task looks at the        *)
(* modification time every 500 ms and tells main through a watch channel,  *)
(* which is a flag; main prints the whole file (4) or what is new (6).     *)
(*                                                                         *)
(* Somebody else may remove or truncate the file, it may be impossible to  *)
(* read for a while, and the clock behind the modification times may be    *)
(* too coarse to tell two changes apart.  Lines are numbered as they are   *)
(* written; offsets count lines.  While the file is missing the task of 4  *)
(* looks at it without a pause, which is no state of its own here.         *)
(***************************************************************************)
EXTENDS Naturals, Sequences, FiniteSets

CONSTANTS
  MaxLine,    \* bound on the lines written
  MaxFile,    \* bound on the files created under the path
  MaxDamage,  \* bound on removals and truncations
  MaxRepeat,  \* bound on the changes that leave the modification time as it is
  MaxError    \* bound on the reads that fail though the file is there

ASSUME WatchAssumption ==
  /\ {MaxLine, MaxFile, MaxDamage, MaxRepeat, MaxError} \subseteq Nat
  /\ MaxFile > 0

File == 1 .. MaxFile
Missing == 0
Line == 0 .. MaxLine  \* 0 is a line from before

VARIABLES
  current,   \* the file the path leads to, or Missing
  created,   \* how many files there have been
  content,   \* the lines of each file, removed ones included
  stamp,     \* the modification time of each file
  clock,     \* the latest modification time
  damage,    \* how often the file was removed or truncated
  repeats,   \* how often a modification time was repeated
  errors,    \* how often a file that was there could not be read
  writer,    \* where append_data of 5-file-writer is
  target,    \* the file it has open
  written,   \* the last line it has handed over
  inFlight,  \* lines handed to the background threads of tokio::fs, by file
  program,   \* who watches: "watcher" (4) or "tail" (6)
  place,     \* where its main is
  last,      \* last_modified of watch_file_changes
  changed,   \* the watch channel has news
  handle,    \* the file main has open
  offset,    \* offset of 6-async-tail-f
  printed    \* what main read to print: the last contents (4), all lines (6)

disk    == <<current, created, content, stamp, clock, damage, repeats, errors>>
writing == <<writer, target, written, inFlight>>
reading == <<program, place, last, changed, handle, offset, printed>>
vars    == <<disk, writing, reading>>

Init ==
  /\ current \in {Missing, 1} /\ created = current
  /\ \E old \in {<< >>, <<0>>} :
       content = [f \in File |-> IF f = current THEN old ELSE << >>]
  /\ stamp = [f \in File |-> IF f = current THEN 1 ELSE 0] /\ clock = 1
  /\ damage = 0 /\ repeats = 0 /\ errors = 0
  /\ writer = "open" /\ target = Missing /\ written = 0 /\ inFlight = {}
  /\ program \in {"watcher", "tail"}
  /\ place = IF program = "tail" THEN "starting" ELSE "waiting"
  /\ last = 0 /\ changed = FALSE /\ handle = Missing
  /\ offset = 0 /\ printed = << >>

TypeOK ==
  /\ current \in {Missing} \cup File /\ created \in 0 .. MaxFile
  /\ content \in [File -> Seq(Line)]
  /\ stamp \in [File -> Nat] /\ clock \in Nat
  /\ damage \in 0 .. MaxDamage /\ repeats \in 0 .. MaxRepeat
  /\ errors \in 0 .. MaxError
  /\ writer \in {"open", "write", "panicked"} /\ target \in {Missing} \cup File
  /\ written \in Line
  /\ inFlight \subseteq [line : Line, file : File]
  /\ program \in {"watcher", "tail"}
  /\ place \in {"starting", "seeking", "waiting", "noticed", "opened", "printing",
             "panicked"}
  /\ last \in 0 .. clock /\ changed \in BOOLEAN /\ handle \in {Missing} \cup File
  /\ offset \in Nat /\ printed \in Seq(Line)

-----------------------------------------------------------------------------
(* The file system.                                                        *)

\* File f is modified, now or within the granularity of the last time.
Touch(f) ==
  /\ \/ clock' = clock + 1 /\ UNCHANGED repeats
     \/ repeats < MaxRepeat /\ repeats' = repeats + 1 /\ UNCHANGED clock
  /\ stamp' = [stamp EXCEPT ![f] = clock']

Create ==
  /\ current = Missing /\ created < MaxFile
  /\ created' = created + 1 /\ current' = created + 1
  /\ Touch(created + 1)
  /\ UNCHANGED <<content, damage, errors>>

Remove ==
  /\ current # Missing /\ damage < MaxDamage
  /\ damage' = damage + 1
  /\ current' = Missing
  /\ UNCHANGED <<created, content, stamp, clock, repeats, errors, writing, reading>>

Truncate ==
  /\ current # Missing /\ damage < MaxDamage
  /\ damage' = damage + 1
  /\ content' = [content EXCEPT ![current] = << >>]
  /\ Touch(current)
  /\ UNCHANGED <<current, created, errors, writing, reading>>

-----------------------------------------------------------------------------
(* 5-file-writer, append_data.                                             *)

\* Faulty: opens without create(true), and does not look at the result.
OpenWithoutCreate ==
  /\ writer = "open" /\ written < MaxLine
  /\ writer' = "write" /\ target' = current
  /\ UNCHANGED <<disk, written, inFlight, reading>>

\* The file is opened for appending, and created when it is missing.
OpenToAppend ==
  /\ writer = "open" /\ written < MaxLine
  /\ writer' = "write"
  /\ IF current = Missing THEN Create ELSE UNCHANGED disk
  /\ target' = current'
  /\ UNCHANGED <<written, inFlight, reading>>

\* It cannot be opened: the task panics, and main sleeps on.
OpenFails ==
  /\ writer = "open" /\ written < MaxLine
  /\ writer' = "panicked"
  /\ UNCHANGED <<disk, target, written, inFlight, reading>>

\* write_all returns once a background thread has the line; the file is then
\* dropped without waiting for it.
WriteAll ==
  /\ writer = "write"
  /\ writer' = "open"
  /\ written' = written + 1
  /\ inFlight' = inFlight \cup {[line |-> written + 1, file |-> target]}
  /\ target' = Missing
  /\ UNCHANGED <<disk, reading>>

\* The background thread appends the line to the file that was opened, which may
\* have been removed.
Land(w) ==
  /\ inFlight' = inFlight \ {w}
  /\ content' = [content EXCEPT ![w.file] = Append(@, w.line)]
  /\ Touch(w.file)
  /\ UNCHANGED <<current, created, damage, errors, writer, target, written, reading>>

\* Or fails, which nobody is told.
LandFails(w) ==
  /\ inFlight' = inFlight \ {w}
  /\ UNCHANGED <<disk, writer, target, written, reading>>

-----------------------------------------------------------------------------
(* watch_file_changes, the same in 4 and 6.                                *)

\* The modification time is not the one seen last: main is told.
Look ==
  /\ place # "panicked"
  /\ current # Missing /\ stamp[current] # last
  /\ last' = stamp[current]
  /\ changed' = TRUE
  /\ UNCHANGED <<disk, writing, program, place, handle, offset, printed>>

-----------------------------------------------------------------------------
(* main of 4 and of 6.                                                     *)

Goes(p, q) == place = p /\ place' = q

\* The file is there and cannot be opened or read: no permission, no UTF-8, a
\* failing disk.
Unreadable == errors < MaxError /\ errors' = errors + 1

\* 6 opens the file, which must be there, and starts at its end.
StartTail ==
  /\ Goes("starting", IF current = Missing THEN "panicked" ELSE "seeking")
  /\ handle' = current
  /\ UNCHANGED <<disk, writing, program, last, changed, offset, printed>>

SeekToEnd ==
  /\ Goes("seeking", "waiting")
  /\ offset' = Len(content[handle])
  /\ handle' = Missing
  /\ UNCHANGED <<disk, writing, program, last, changed, printed>>

\* expect panics when the file cannot be opened, or its end not found.
StartFails ==
  /\ Unreadable
  /\ place \in {"starting", "seeking"} /\ place' = "panicked"
  /\ handle' = Missing
  /\ UNCHANGED <<current, created, content, stamp, clock, damage, repeats, writing,
                 program, last, changed, offset, printed>>

\* Faulty: reads without waiting for news.
NoticeAtOnce ==
  /\ Goes("waiting", "noticed")
  /\ changed' = FALSE
  /\ UNCHANGED <<disk, writing, program, last, handle, offset, printed>>

\* rx.changed() returns: the news is taken before the file is read.
Notice ==
  /\ changed
  /\ Goes("waiting", "noticed")
  /\ changed' = FALSE
  /\ UNCHANGED <<disk, writing, program, last, handle, offset, printed>>

OpenToRead ==
  /\ current # Missing
  /\ Goes("noticed", "opened")
  /\ handle' = current
  /\ UNCHANGED <<disk, writing, program, last, changed, offset, printed>>

\* The file is gone: 4 unwraps the error, 6 waits for more news.
OpenToReadFails ==
  /\ current = Missing
  /\ Goes("noticed", IF program = "watcher" THEN "panicked" ELSE "waiting")
  /\ UNCHANGED <<disk, writing, program, last, changed, handle, offset, printed>>

\* open or read_to_string fails otherwise: the news is gone, and nothing is read.
ReadFails ==
  /\ Unreadable
  /\ place \in {"noticed", "opened"}
  /\ place' = IF program = "watcher" THEN "panicked" ELSE "waiting"
  /\ handle' = Missing
  /\ UNCHANGED <<current, created, content, stamp, clock, damage, repeats, writing,
                 program, last, changed, offset, printed>>

\* Faulty: news that came while reading are taken for read.
ReadAllAndForget ==
  /\ program = "watcher"
  /\ Goes("opened", "printing")
  /\ printed' = content[handle]
  /\ handle' = Missing /\ changed' = FALSE
  /\ UNCHANGED <<disk, writing, program, last, offset>>

\* read_file of 4.
ReadAll ==
  /\ program = "watcher"
  /\ Goes("opened", "printing")
  /\ printed' = content[handle]
  /\ handle' = Missing
  /\ UNCHANGED <<disk, writing, program, last, changed, offset>>

\* The lines after the offset, none when it is past the end.
NewLines == SubSeq(content[handle], offset + 1, Len(content[handle]))

\* Faulty: the offset is not moved by what was read.
ReadNewAgain ==
  /\ program = "tail"
  /\ Goes("opened", "printing")
  /\ printed' = printed \o NewLines
  /\ handle' = Missing
  /\ UNCHANGED <<disk, writing, program, last, changed, offset>>

\* Faulty: the offset is what was read, and not moved by it.
ReadNewAssigned ==
  /\ program = "tail"
  /\ Goes("opened", "printing")
  /\ printed' = printed \o NewLines
  /\ offset' = Len(NewLines)
  /\ handle' = Missing
  /\ UNCHANGED <<disk, writing, program, last, changed>>

\* read_new_content of 6.
ReadNew ==
  /\ program = "tail"
  /\ Goes("opened", "printing")
  /\ printed' = printed \o NewLines
  /\ offset' = offset + Len(NewLines)
  /\ handle' = Missing
  /\ UNCHANGED <<disk, writing, program, last, changed>>

\* Faulty: news that came while reading and printing are taken for read.
PrintAndForget ==
  /\ Goes("printing", "waiting")
  /\ changed' = FALSE
  /\ UNCHANGED <<disk, writing, program, last, handle, offset, printed>>

\* What was read is printed, and the loop waits for news again.
PutOut ==
  /\ Goes("printing", "waiting")
  /\ UNCHANGED <<disk, writing, program, last, changed, handle, offset, printed>>

Reader ==
  \/ StartTail \/ SeekToEnd \/ Notice \/ OpenToRead \/ OpenToReadFails
  \/ ReadAll \/ ReadNew \/ PutOut

Next ==
  \/ Remove \/ Truncate \/ StartFails \/ ReadFails
  \/ OpenToAppend \/ OpenFails \/ WriteAll
  \/ \E w \in inFlight : Land(w) \/ LandFails(w)
  \/ Look \/ Reader

Spec == Init /\ [][Next]_vars

\* The task that looks and main are polled.
FairSpec == Spec /\ WF_vars(Look) /\ WF_vars(Reader)

-----------------------------------------------------------------------------
(* Properties.                                                             *)

Tailing == program = "tail" /\ place \in {"waiting", "noticed", "opened", "printing"}

\* While nobody removes or truncates the file, what 6 has printed is a part of it
\* that ends at the offset: no line twice, none left out, none out of order,
\* however the background writes, the looks and the reads interleave.
TailIsExact ==
  Tailing /\ damage = 0 =>
    /\ offset <= Len(content[current]) /\ Len(printed) <= offset
    /\ printed = SubSeq(content[current], offset - Len(printed) + 1, offset)

\* Even then, 6 prints no line twice.
NoLineTwice ==
  program = "tail" =>
    \A i, j \in 1 .. Len(printed) : printed[i] = printed[j] => i = j

\* 4 unwraps the error of a read.  It panics only after its task has seen a file
\* (last_modified), and only when there is none now, so that the one it saw has
\* been removed, or when the read of the one that is there fails.  A file still
\* to be created is waited for, and a truncation harms nobody.
PanicsOnlyOnLoss ==
  [][program = "watcher" /\ place # "panicked" /\ place' = "panicked" =>
       last # 0 /\ (current = Missing \/ errors' > errors)]_vars

\* The file has changed, and main does not know what has.
NewsToCome == changed \/ stamp[current] # last \/ place \in {"noticed", "opened"}

\* Every line that is appended after 6 has started is printed, if modification
\* times tell the changes apart and nobody else touches the file; a read that
\* fails puts it off, until the file changes again.
EveryLineIsPrinted ==
  \A l \in Line \ {0} : \A e \in 0 .. MaxError :
    (/\ Tailing /\ current # Missing /\ errors = e
     /\ e = 0 \/ NewsToCome
     /\ \E i \in offset + 1 .. Len(content[current]) : content[current][i] = l)
      ~> \/ \E i \in 1 .. Len(printed) : printed[i] = l
         \/ damage > 0 \/ repeats > 0 \/ errors > e

\* What 4 has printed last comes to be what is in the file, until that changes,
\* if modification times tell the changes apart; a failed read ends it.
LatestIsPrinted ==
  \A f \in File : \A n \in 1 .. MaxLine :
    program = "watcher" /\ current = f /\ Len(content[f]) = n
      ~> \/ printed = content[f] \/ Len(content[f]) # n \/ current # f
         \/ repeats > 0 \/ place = "panicked"
=============================================================================
