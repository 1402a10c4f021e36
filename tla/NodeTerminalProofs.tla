------------------------- MODULE NodeTerminalProofs -------------------------
(***************************************************************************)
(* What is true of NodeTerminal for every size of the window, of the line  *)
(* and of the output.                                                      *)
(*                                                                         *)
(* AsciiEditsNeverPanic: the cursor never passes the end of the line, so a *)
(* panic means that it stands inside a character.  WindowKeepsItsPlace:    *)
(* every step that is not a scroll key, CLEAR or a drawing prints by Show, *)
(* and Show keeps what is shown, or the bottom.                            *)
(*                                                                         *)
(* TypeOK needs more than types.  That two requests at most are in the     *)
(* channel is a fact about the calls (CallsFit): one is there while its    *)
(* caller waits, and only the shutdown of EXIT stays behind, with the last *)
(* refresh after it.  That the lines stay within their bound counts those  *)
(* that are still to come (LinesFit).                                      *)
(***************************************************************************)
EXTENDS NodeTerminal, SequenceTheorems, TLAPS

LineOK ==
  /\ input \in Seq(Byte) /\ Len(input) <= MaxInput
  /\ cursor \in 0 .. Len(input)

EditorInv == LineOK /\ AsciiEditsNeverPanic

WindowOK == lines \in Nat /\ offset \in Nat /\ height \in Nat /\ logs \in Nat

-----------------------------------------------------------------------------
(* The line.                                                               *)

LEMMA Part ==
  ASSUME NEW s \in Seq(Byte), NEW m \in Nat, NEW n \in Nat, 1 <= m, n <= Len(s)
  PROVE  /\ SubSeq(s, m, n) \in Seq(Byte)
         /\ Len(SubSeq(s, m, n)) = IF m <= n THEN n - m + 1 ELSE 0
<1>1. \A i \in m .. n : i \in 1 .. Len(s)
  BY LenProperties
<1>2. \A i \in m .. n : s[i] \in Byte
  BY <1>1, ElementOfSeq
<1>3. m \in Int /\ n \in Int
  OBVIOUS
<1> QED
  BY <1>2, <1>3, SubSeqProperties

\* A character is put in at the cursor, which moves one on: it does not pass the
\* end of the line.
LEMMA TypeKeepsLine ==
  ASSUME LineOK, NEW char \in {Ascii, Wide}, Type(char)
  PROVE  LineOK'
<1> DEFINE left == SubSeq(input, 1, cursor)
           right == SubSeq(input, cursor + 1, Len(input))
<1>1. Len(input) \in Nat /\ cursor \in Nat /\ cursor <= Len(input)
  BY LenProperties DEF LineOK
<1>2. char \in Seq(Byte) /\ Len(char) \in Nat /\ Len(char) >= 1
  <2>1. "ascii" \in Byte /\ "lead" \in Byte /\ "tail" \in Byte
    BY DEF Byte
  <2>2. CASE char = <<"ascii">>
    BY <2>1, <2>2
  <2>3. CASE char = <<"lead", "tail">>
    BY <2>1, <2>3
  <2> QED
    BY <2>2, <2>3 DEF Ascii, Wide
<1>3. left \in Seq(Byte) /\ Len(left) = cursor
  <2>1. 1 \in Nat /\ 1 <= 1 /\ (IF 1 <= cursor THEN cursor - 1 + 1 ELSE 0) = cursor
    BY <1>1
  <2> QED
    BY <1>1, <2>1, Part DEF LineOK
<1>4. right \in Seq(Byte) /\ Len(right) = Len(input) - cursor
  <2>1. /\ cursor + 1 \in Nat /\ 1 <= cursor + 1
        /\ (IF cursor + 1 <= Len(input) THEN Len(input) - (cursor + 1) + 1 ELSE 0)
             = Len(input) - cursor
    BY <1>1
  <2> QED
    BY <1>1, <2>1, Part DEF LineOK
<1>5. left \o char \in Seq(Byte) /\ Len(left \o char) = cursor + Len(char)
  BY <1>2, <1>3, ConcatProperties
<1>6. /\ (left \o char) \o right \in Seq(Byte)
      /\ Len((left \o char) \o right) = cursor + Len(char) + (Len(input) - cursor)
  BY <1>4, <1>5, ConcatProperties
<1>7. input' = (left \o char) \o right /\ cursor' = cursor + 1
  BY DEF Type, Edited
<1>8. cursor + 1 \in 0 .. cursor + Len(char) + (Len(input) - cursor)
  BY <1>1, <1>2
<1>9. cursor + Len(char) + (Len(input) - cursor) <= MaxInput
  <2>1. Len(input) + Len(char) <= MaxInput
    BY DEF Type
  <2> QED
    BY <1>1, <1>2, <2>1
<1> QED
  BY <1>6, <1>7, <1>8, <1>9 DEF LineOK

\* The character before the cursor goes, and the cursor one back.
LEMMA BackspaceKeepsLine ==
  ASSUME LineOK, Backspace
  PROVE  LineOK'
<1> DEFINE w == WidthAt(cursor - 1)
           left == SubSeq(input, 1, cursor - 1)
           right == SubSeq(input, cursor + w, Len(input))
<1>1. Len(input) \in Nat /\ cursor \in Nat /\ 1 <= cursor /\ cursor <= Len(input)
  BY LenProperties DEF LineOK, Backspace
<1>2. w \in Nat /\ 1 <= w
  BY DEF WidthAt
<1>3. left \in Seq(Byte) /\ Len(left) = cursor - 1
  <2>1. /\ 1 \in Nat /\ 1 <= 1 /\ cursor - 1 \in Nat /\ cursor - 1 <= Len(input)
        /\ (IF 1 <= cursor - 1 THEN (cursor - 1) - 1 + 1 ELSE 0) = cursor - 1
    BY <1>1
  <2> QED
    BY <2>1, Part DEF LineOK
<1>4. right \in Seq(Byte) /\ Len(right) \in Nat /\ Len(right) <= Len(input) - cursor
  <2> DEFINE k == IF cursor + w <= Len(input) THEN Len(input) - (cursor + w) + 1 ELSE 0
  <2>1. cursor + w \in Nat /\ 1 <= cursor + w /\ k \in Nat /\ k <= Len(input) - cursor
    BY <1>1, <1>2
  <2>2. right \in Seq(Byte) /\ Len(right) = k
    BY <1>1, <2>1, Part DEF LineOK
  <2> QED
    BY <2>1, <2>2
<1>5. left \o right \in Seq(Byte) /\ Len(left \o right) = (cursor - 1) + Len(right)
  BY <1>3, <1>4, ConcatProperties
<1>6. input' = left \o right /\ cursor' = cursor - 1
  BY DEF Backspace, Edited
<1>7. cursor - 1 \in 0 .. (cursor - 1) + Len(right)
  BY <1>1, <1>4
<1>8. (cursor - 1) + Len(right) <= MaxInput
  <2>1. MaxInput \in Nat /\ Len(input) <= MaxInput
    BY TerminalAssumption DEF LineOK
  <2> QED
    BY <1>1, <1>4, <2>1
<1> QED
  BY <1>5, <1>6, <1>7, <1>8 DEF LineOK

LEMMA MovesKeepLine ==
  ASSUME LineOK, Left \/ Right
  PROVE  LineOK'
<1>1. Len(input) \in Nat /\ cursor \in Nat /\ cursor <= Len(input)
  BY LenProperties DEF LineOK
<1>2. input' = input /\ cursor' \in 0 .. Len(input)
  BY <1>1 DEF Left, Right, Edited, Minus
<1> QED
  BY <1>2 DEF LineOK

\* Off a boundary, but not past the end: inside a character of two bytes.
LEMMA PanicIsInside ==
  ASSUME LineOK, NEW i \in Nat, i <= Len(input), ~OnBoundary(i)
  PROVE  \E j \in 1 .. Len(input) : input[j] # "ascii"
<1>1. Len(input) \in Nat
  BY LenProperties DEF LineOK
<1>2. i + 1 \in 1 .. Len(input) /\ input[i + 1] = "tail"
  BY <1>1 DEF OnBoundary
<1> QED
  BY <1>2
-----------------------------------------------------------------------------
(* The editor.                                                             *)

\* A step that leaves the line as it is, and does not end in a panic.
LEMMA LineStays ==
  ASSUME EditorInv, UNCHANGED <<input, cursor>>,
         where' # "panicked" \/ where' = where
  PROVE  EditorInv'
  BY DEF EditorInv, LineOK, AsciiEditsNeverPanic

\* A step that clears it.
LEMMA LineCleared ==
  ASSUME input' = << >>, cursor' = 0, where' # "panicked"
  PROVE  EditorInv'
  BY TerminalAssumption DEF EditorInv, LineOK, AsciiEditsNeverPanic

LEMMA EditKeeps ==
  ASSUME EditorInv, Edit
  PROVE  EditorInv'
<1>1. CASE Type(Ascii) \/ Type(Wide)
  <2>1. LineOK'
    BY <1>1, TypeKeepsLine DEF EditorInv
  <2>2. where' = "tick"
    BY <1>1 DEF Type, Edited, Goes
  <2> QED
    BY <2>1, <2>2 DEF EditorInv, AsciiEditsNeverPanic
<1>2. CASE Backspace
  <2>1. LineOK'
    BY <1>2, BackspaceKeepsLine DEF EditorInv
  <2>2. where' = "tick"
    BY <1>2 DEF Backspace, Edited, Goes
  <2> QED
    BY <2>1, <2>2 DEF EditorInv, AsciiEditsNeverPanic
<1>3. CASE Left \/ Right
  <2>1. LineOK'
    BY <1>3, MovesKeepLine DEF EditorInv
  <2>2. where' = "tick"
    BY <1>3 DEF Left, Right, Edited, Goes
  <2> QED
    BY <2>1, <2>2 DEF EditorInv, AsciiEditsNeverPanic
<1>4. CASE EditPanics
  <2>1. Len(input) \in Nat /\ cursor \in Nat /\ cursor <= Len(input)
    BY LenProperties DEF EditorInv, LineOK
  <2>2. PICK i \in Nat : i <= Len(input) /\ ~OnBoundary(i)
    <3>1. CASE ~OnBoundary(cursor)
      BY <2>1, <3>1
    <3>2. CASE cursor > 0 /\ ~OnBoundary(cursor - 1)
      BY <2>1, <3>2
    <3> QED
      BY <1>4, <3>1, <3>2 DEF EditPanics
  <2>3. \E j \in 1 .. Len(input) : input[j] # "ascii"
    BY <2>2, PanicIsInside DEF EditorInv
  <2>4. input' = input /\ cursor' = cursor
    BY <1>4 DEF EditPanics, Exits, app
  <2> QED
    BY <2>3, <2>4 DEF EditorInv, LineOK, AsciiEditsNeverPanic
<1> QED
  BY <1>1, <1>2, <1>3, <1>4 DEF Edit

LEMMA EnterKeeps ==
  ASSUME EditorInv, Enter
  PROVE  EditorInv'
<1>1. PICK c \in Readable :
        \/ c = "clear" /\ Clear
        \/ c = "help" /\ Help(HelpLines)
        \/ c = "invalid" /\ Help(1)
        \/ c = "exit" /\ Exit
        \/ Call("keys", c)
  BY DEF Enter
<1>2. CASE Clear
  BY <1>2, LineCleared DEF Clear
<1>3. ASSUME NEW n, Help(n) PROVE EditorInv'
  BY <1>3, LineCleared DEF Help, Done
<1>4. CASE Exit
  <2>1. CASE Done(1)
    BY <2>1, LineCleared DEF Done
  <2>2. CASE where' = "cleanup" /\ UNCHANGED app
    BY <2>2, LineStays DEF app
  <2> QED
    BY <1>4, <2>1, <2>2 DEF Exit
<1>5. CASE Call("keys", c)
  BY <1>5, LineStays DEF Call, Goes, app
<1> QED
  BY <1>1, <1>2, <1>3, <1>4, <1>5

LEMMA MainKeepsEditor ==
  ASSUME EditorInv, Main
  PROVE  EditorInv'
<1>1. CASE DoesNotStart \/ NoTerminal \/ Cleanup
  BY <1>1, LineStays DEF DoesNotStart, NoTerminal, Cleanup, Exits, Goes, app
<1>2. CASE Start \/ TerminalBreaks \/ NoKey \/ EnterBlank
  BY <1>2, LineStays DEF Start, TerminalBreaks, NoKey, EnterBlank, Goes, app
<1>3. CASE FirstStatus \/ Due
  BY <1>3, LineStays DEF FirstStatus, Due, Call, Goes, app
<1>4. CASE Refreshed \/ NotDue \/ ListFails
  BY <1>4, LineStays DEF Refreshed, NotDue, ListFails, NextRound, Goes, app
<1>5. CASE DrainAndDraw \/ Up \/ Down \/ Quit
  BY <1>5, LineStays DEF DrainAndDraw, Up, Down, Scrolled, Quit, Goes
<1>6. CASE Edit
  BY <1>6, EditKeeps
<1>7. CASE Enter
  BY <1>7, EnterKeeps
<1>8. CASE Reported
  BY <1>8, LineCleared DEF Reported, Done
<1>9. CASE Listed
  <2>1. input' = << >> /\ cursor' = 0 /\ where' = "tick"
    BY <1>9 DEF Listed, Done
  <2> QED
    BY <2>1, LineCleared
<1> QED
  BY <1>1, <1>2, <1>3, <1>4, <1>5, <1>6, <1>7, <1>8, <1>9 DEF Main

LEMMA OthersKeepEditor ==
  ASSUME EditorInv,
         \/ Serve \/ PutApplied \/ StatusChanges \/ WorkerLogs \/ WorkerCrashes
         \/ NetworkCloses \/ Bind
  PROVE  EditorInv'
<1>1. UNCHANGED <<input, cursor, where>>
  BY DEF Serve, Served, ProposePut, WorkerEnds, PutApplied, StatusChanges, WorkerLogs,
         WorkerCrashes, NetworkCloses, Bind, app
<1> QED
  BY <1>1, LineStays

LEMMA EditorInit == Init => EditorInv
  BY TerminalAssumption DEF Init, EditorInv, LineOK, AsciiEditsNeverPanic

LEMMA EditorNext == EditorInv /\ [Next]_vars => EditorInv'
<1> SUFFICES ASSUME EditorInv, [Next]_vars PROVE EditorInv'
  OBVIOUS
<1>1. CASE Main
  BY <1>1, MainKeepsEditor
<1>2. CASE UNCHANGED vars
  BY <1>2, LineStays DEF vars, app
<1> QED
  BY <1>1, <1>2, OthersKeepEditor DEF Next

\* Whatever keys are pressed, cursor_position stays within the line, and an edit
\* panics only when a character of the line has more than one byte.
THEOREM PanicNeedsWideCharacter == Spec => []AsciiEditsNeverPanic
<1>1. EditorInv => AsciiEditsNeverPanic
  BY DEF EditorInv
<1> QED
  BY <1>1, EditorInit, EditorNext, PTL DEF Spec

-----------------------------------------------------------------------------
(* The window.                                                             *)

\* What WindowKeepsItsPlace says of a step.
KeepsPlace ==
  /\ Top' # Top => \/ AtBottom
                   \/ where = "keys" /\ (lines' = lines \/ lines' = 0)
                   \/ height' # height
  /\ AtBottom /\ ~AtBottom' => \/ where = "keys" /\ lines' = lines
                               \/ height' # height

\* What is printed goes below a window that is not at the bottom, and a window at
\* the bottom follows it.
LEMMA ShowKeepsPlace ==
  ASSUME WindowOK, NEW n \in Nat, Show(n), height' \in Nat
  PROVE  lines' \in Nat /\ offset' \in Nat /\ KeepsPlace
<1>1. lines' = lines + n /\ offset' \in {offset, lines + n}
  BY DEF Show
<1>2. lines' \in Nat /\ offset' \in Nat
  BY <1>1 DEF WindowOK
<1>3. CASE height' = height /\ AtBottom
  <2>1. CASE n > 0
    <3>1. offset' = lines + n
      BY <1>3, <2>1 DEF Show
    <3>2. AtBottom'
      BY <1>1, <1>3, <3>1 DEF WindowOK, AtBottom, LastTop, Minus
    <3> QED
      BY <1>2, <1>3, <3>2 DEF KeepsPlace
  <2>2. CASE n = 0
    <3>1. lines' = lines /\ offset' = offset
      BY <2>2 DEF Show, WindowOK
    <3>2. AtBottom'
      BY <1>3, <3>1 DEF AtBottom, LastTop, Minus
    <3> QED
      BY <1>2, <1>3, <3>2 DEF KeepsPlace
  <2> QED
    BY <2>1, <2>2
<1>4. CASE height' = height /\ ~AtBottom
  <2>1. offset' = offset
    BY <1>4 DEF Show
  <2>2. Top = offset
    BY <1>4 DEF WindowOK, Top, AtBottom, LastTop, Smaller, Minus
  <2>3. Top' = offset
    BY <1>1, <1>4, <2>1 DEF WindowOK, Top, AtBottom, LastTop, Smaller, Minus
  <2> QED
    BY <1>2, <1>4, <2>2, <2>3 DEF KeepsPlace
<1>5. height' # height => KeepsPlace
  BY DEF KeepsPlace
<1> QED
  BY <1>2, <1>3, <1>4, <1>5

LEMMA StillKeepsPlace ==
  ASSUME UNCHANGED <<lines, offset, height>>
  PROVE  KeepsPlace
<1>1. Top' = Top /\ (AtBottom' <=> AtBottom)
  BY DEF Top, AtBottom, LastTop, Smaller, Minus
<1> QED
  BY <1>1 DEF KeepsPlace

\* A step that leaves the window alone.
LEMMA WindowStays ==
  ASSUME WindowOK, UNCHANGED <<lines, offset, height>>, logs' \in Nat
  PROVE  WindowOK' /\ KeepsPlace
  BY StillKeepsPlace DEF WindowOK

\* The end of a command.
LEMMA DoneKeeps ==
  ASSUME WindowOK, NEW n \in Nat, Done(n)
  PROVE  WindowOK' /\ KeepsPlace
<1>1. n + 1 \in Nat /\ Show(n + 1) /\ height' \in Nat /\ logs' \in Nat
  BY DEF Done, WindowOK
<1> QED
  BY <1>1, ShowKeepsPlace DEF WindowOK

LEMMA ScrollKeeps ==
  ASSUME WindowOK, NEW o \in Nat, Scrolled(o)
  PROVE  WindowOK' /\ KeepsPlace
  BY DEF Scrolled, Goes, channel, WindowOK, KeepsPlace

LEMMA ClearKeeps ==
  ASSUME WindowOK, where = "keys", Clear
  PROVE  WindowOK' /\ KeepsPlace
<1>1. lines' = 0 /\ offset' = 0 /\ height' = height /\ logs' = logs
  BY DEF Clear
<1>2. AtBottom'
  BY <1>1 DEF WindowOK, AtBottom, LastTop, Minus
<1> QED
  BY <1>1, <1>2 DEF WindowOK, KeepsPlace

LEMMA EnterKeepsPlace ==
  ASSUME WindowOK, Enter
  PROVE  WindowOK' /\ KeepsPlace
<1>1. where = "keys" /\ HelpLines \in Nat
  BY TerminalAssumption DEF Enter
<1>2. \/ Clear \/ Help(HelpLines) \/ Help(1) \/ Exit
      \/ \E c \in Command : Call("keys", c)
  BY DEF Enter, Command, OneWord
<1>3. CASE Clear
  BY <1>1, <1>3, ClearKeeps
<1>4. CASE Help(HelpLines) \/ Help(1)
  BY <1>1, <1>4, DoneKeeps DEF Help
<1>5. CASE Exit
  <2>1. CASE Done(1)
    BY <2>1, DoneKeeps
  <2>2. CASE UNCHANGED <<app, logs>>
    BY <2>2, WindowStays DEF app, WindowOK
  <2> QED
    BY <1>5, <2>1, <2>2 DEF Exit
<1>6. ASSUME NEW c \in Command, Call("keys", c) PROVE WindowOK' /\ KeepsPlace
  BY <1>6, WindowStays DEF Call, app, WindowOK
<1> QED
  BY <1>2, <1>3, <1>4, <1>5, <1>6

LEMMA MainKeepsPlace ==
  ASSUME WindowOK, Main
  PROVE  WindowOK' /\ KeepsPlace
<1>1. CASE DoesNotStart \/ NoTerminal \/ Cleanup \/ EditPanics
  BY <1>1, WindowStays
  DEF DoesNotStart, NoTerminal, Cleanup, EditPanics, Exits, app, WindowOK
<1>2. CASE Start \/ TerminalBreaks \/ NoKey \/ EnterBlank \/ NotDue \/ ListFails
  BY <1>2, WindowStays
  DEF Start, TerminalBreaks, NoKey, EnterBlank, NotDue, ListFails, app, WindowOK
<1>3. CASE FirstStatus \/ Due
  BY <1>3, WindowStays DEF FirstStatus, Due, Call, app, WindowOK
<1>4. CASE Refreshed \/ Quit
  BY <1>4, WindowStays DEF Refreshed, Quit, WindowOK
<1>5. CASE Edit
  <2>1. CASE EditPanics
    BY <1>1, <2>1
  <2>2. CASE Type(Ascii) \/ Type(Wide) \/ Backspace \/ Left \/ Right
    <3>1. UNCHANGED <<lines, offset, height, logs>>
      BY <2>2 DEF Type, Backspace, Left, Right, Edited
    <3> QED
      BY <3>1, WindowStays DEF WindowOK
  <2> QED
    BY <1>5, <2>1, <2>2 DEF Edit
<1>6. CASE DrainAndDraw
  <2>1. height' \in Nat /\ logs' = 0 /\ Show(logs) /\ logs \in Nat
    BY <1>6, TerminalAssumption DEF DrainAndDraw, WindowOK
  <2> QED
    BY <2>1, ShowKeepsPlace DEF WindowOK
<1>7. CASE Up
  <2>1. Minus(offset, 1) \in Nat
    BY DEF Minus, WindowOK
  <2> QED
    BY <1>7, <2>1, ScrollKeeps DEF Up
<1>8. CASE Down
  <2>1. offset + 1 \in Nat
    BY DEF WindowOK
  <2> QED
    BY <1>8, <2>1, ScrollKeeps DEF Down
<1>9. CASE Enter
  BY <1>9, EnterKeepsPlace
<1>10. CASE Reported
  BY <1>10, DoneKeeps DEF Reported
<1>11. CASE Listed
  <2>1. PICK k \in StoreSize : Done(Printed(k))
    BY <1>11 DEF Listed
  <2>2. Printed(k) \in Nat
    BY TerminalAssumption DEF Printed, AtLeastOne
  <2> QED
    BY <2>1, <2>2, DoneKeeps
<1> QED
  BY <1>1, <1>2, <1>3, <1>4, <1>5, <1>6, <1>7, <1>8, <1>9, <1>10, <1>11 DEF Main

LEMMA OthersKeepPlace ==
  ASSUME WindowOK,
         \/ Serve \/ PutApplied \/ StatusChanges \/ WorkerLogs \/ WorkerCrashes
         \/ NetworkCloses \/ Bind
  PROVE  WindowOK' /\ KeepsPlace
<1>1. UNCHANGED <<lines, offset, height>> /\ (logs' = logs \/ logs' = logs + 1)
  BY DEF Serve, Served, ProposePut, WorkerEnds, PutApplied, StatusChanges, WorkerLogs,
         WorkerCrashes, NetworkCloses, Bind, app
<1> QED
  BY <1>1, WindowStays DEF WindowOK

\* What the output window shows moves only with the user, with a resize, or with
\* the bottom, and stays at the bottom otherwise (is_at_bottom, scroll_to_bottom).
THEOREM WindowStaysPut == Spec => WindowKeepsItsPlace
<1>1. Init => WindowOK
  BY TerminalAssumption DEF Init, WindowOK
<1>2. WindowOK /\ [Next]_vars => WindowOK' /\ KeepsPlace
  <2> SUFFICES ASSUME WindowOK, [Next]_vars PROVE WindowOK' /\ KeepsPlace
    OBVIOUS
  <2>1. CASE Main
    BY <2>1, MainKeepsPlace
  <2>2. CASE UNCHANGED vars
    BY <2>2, WindowStays DEF vars, app, WindowOK
  <2> QED
    BY <2>1, <2>2, OthersKeepPlace DEF Next
<1> QED
  BY <1>1, <1>2, PTL DEF Spec, WindowKeepsItsPlace, KeepsPlace

-----------------------------------------------------------------------------
(* The calls.                                                              *)

ControlsOK ==
  /\ where \in Place
  /\ command \in Command \cup {"none", "refresh"}
  /\ shown \in 0 .. MaxStatus /\ quit \in BOOLEAN
  /\ reply = << >> \/ reply \in {<<a>> : a \in Answer}
  /\ worker \in {"none", "running", "gone"} /\ proposed \in BOOLEAN
  /\ status \in 0 .. MaxStatus
  /\ listener \in {"none", "binding", "up", "failed"}

\* A request is in the channel while its call waits for the answer, and shutdown
\* from Exit until the worker takes it: at most these two.
RequestsFit ==
  \/ requests = << >>
  \/ where = "waiting" /\ reply = << >> /\ requests = <<command>>
  \/ where = "waiting" /\ reply = << >> /\ quit /\ requests = <<"shutdown", "refresh">>
  \/ where \in {"tick", "cleanup"} /\ quit /\ requests = <<"shutdown">>

\* What a call leaves behind, whatever ends it, does not meet the next one.
CallsFit ==
  /\ RequestsFit
  /\ worker # "running" => requests = << >> /\ ~proposed
  /\ proposed => where = "waiting" /\ requests = << >> /\ reply = << >>
  /\ where # "waiting" => reply = << >>
  /\ where = "waiting" => command # "none"
  /\ where \in {"start", "spawned", "drain", "keys"} => ~quit
  /\ where = "start" => worker = "none"

CallsInv == ControlsOK /\ CallsFit

LEMMA ShortSequences ==
  ASSUME NEW a, NEW b
  PROVE  /\ Append(<< >>, a) = <<a>> /\ Append(<<a>>, b) = <<a, b>>
         /\ <<a>> # << >> /\ Head(<<a>>) = a /\ Tail(<<a>>) = << >>
         /\ <<a, b>> # << >> /\ Head(<<a, b>>) = a
<1> DEFINE T == {a, b}
<1>1. a \in T /\ b \in T
  OBVIOUS
<1> HIDE DEF T
<1>2. << >> \in Seq(T) /\ Len(<< >>) = 0
  OBVIOUS
<1>3. <<a>> \in Seq(T) /\ Len(<<a>>) = 1 /\ <<a>>[1] = a
  BY <1>1
<1>4. <<a, b>> \in Seq(T) /\ Len(<<a, b>>) = 2 /\ <<a, b>>[1] = a /\ <<a, b>>[2] = b
  BY <1>1
<1>5. Append(<< >>, a) = <<a>>
  OBVIOUS
<1>6. Append(<<a>>, b) = <<a, b>>
  <2>1. /\ Append(<<a>>, b) \in Seq(T) /\ Len(Append(<<a>>, b)) = 2
        /\ Append(<<a>>, b)[1] = a /\ Append(<<a>>, b)[2] = b
    BY <1>1, <1>3, AppendProperties
  <2>2. \A i \in 1 .. 2 : i = 1 \/ i = 2
    OBVIOUS
  <2> QED
    BY <1>4, <2>1, <2>2, SeqEqual
<1>7. <<a>> # << >> /\ <<a, b>> # << >>
  BY <1>2, <1>3, <1>4
<1>8. Head(<<a>>) = a /\ Head(<<a, b>>) = a
  OBVIOUS
<1>9. Tail(<<a>>) = << >>
  OBVIOUS
<1> QED
  BY <1>5, <1>6, <1>7, <1>8, <1>9

LEMMA RequestsType ==
  ASSUME CallsInv
  PROVE  requests \in Seq(Command \cup {"shutdown", "refresh"}) /\ Len(requests) <= 2
<1> DEFINE R == Command \cup {"shutdown", "refresh"}
<1>1. "shutdown" \in R /\ "refresh" \in R
  OBVIOUS
<1>2. where = "waiting" => command \in R
  BY DEF CallsInv, ControlsOK, CallsFit
<1> SUFFICES requests \in Seq(R) /\ Len(requests) <= 2
  OBVIOUS
<1> HIDE DEF R
<1>3. CASE requests = << >>
  BY <1>3
<1>4. CASE where = "waiting" /\ requests = <<command>>
  BY <1>2, <1>4
<1>5. CASE requests = <<"shutdown", "refresh">>
  BY <1>1, <1>5
<1>6. CASE requests = <<"shutdown">>
  BY <1>1, <1>6
<1> QED
  BY <1>3, <1>4, <1>5, <1>6 DEF CallsInv, CallsFit, RequestsFit

\* A call that returns has no request left behind.
LEMMA AnsweredIsAlone ==
  ASSUME CallsInv, Answered
  PROVE  where = "waiting" /\ requests = << >> /\ ~proposed
  BY DEF CallsInv, CallsFit, RequestsFit, Answered

\* A step of the main thread that leaves the channels alone, and does not wait.
LEMMA CallsStay ==
  ASSUME CallsInv, where # "waiting", UNCHANGED <<command, shown, channel, node>>,
         where' \in Place \ {"start", "waiting"}, quit' \in BOOLEAN,
         where' \in {"spawned", "drain", "keys"} => ~quit',
         requests # << >> => where' \in {"tick", "cleanup"} /\ quit'
  PROVE  CallsInv'
<1>1. ControlsOK'
  BY DEF CallsInv, ControlsOK, channel, node
<1>2. RequestsFit'
  BY DEF CallsInv, CallsFit, RequestsFit, channel
<1> QED
  BY <1>1, <1>2 DEF CallsInv, CallsFit, channel, node

\* The end of the process.
LEMMA ExitsCalls ==
  ASSUME CallsInv, NEW p \in Place \ {"waiting"}, NEW q \in Over, Exits(p, q)
  PROVE  CallsInv'
<1>1. /\ where' = q /\ requests' = << >> /\ worker' = "gone" /\ proposed' = FALSE
      /\ reply = << >> /\ UNCHANGED <<command, shown, quit, reply, status, listener>>
  BY DEF CallsInv, CallsFit, Exits, Goes, app
<1>2. q \in Place /\ q \notin {"start", "spawned", "drain", "keys", "waiting"}
  BY DEF Over, Place
<1> QED
  BY <1>1, <1>2 DEF CallsInv, ControlsOK, CallsFit, RequestsFit

\* A call goes out alone, or the refresh of the last turn behind shutdown.
LEMMA CallFits ==
  ASSUME CallsInv, NEW p \in {"spawned", "tick", "keys"},
         NEW c \in Command \cup {"refresh"}, p = "tick" => c = "refresh", Call(p, c)
  PROVE  CallsInv'
<1>1. /\ where = p /\ where' = "waiting" /\ command' = c
      /\ UNCHANGED <<shown, quit, reply, worker, proposed, status, listener>>
      /\ requests' = IF worker = "running" THEN Append(requests, c) ELSE requests
  BY DEF Call, Goes, app, node
<1>2. reply = << >> /\ ~proposed /\ c # "none"
  BY <1>1 DEF CallsInv, CallsFit, Command, OneWord
<1>3. ControlsOK'
  BY <1>1, <1>2 DEF CallsInv, ControlsOK, Place
<1>4. RequestsFit'
  <2>1. CASE worker # "running"
    BY <1>1, <2>1 DEF CallsInv, CallsFit, RequestsFit
  <2>2. CASE worker = "running" /\ requests = << >>
    BY <1>1, <1>2, <2>2, ShortSequences DEF RequestsFit
  <2>3. CASE worker = "running" /\ requests # << >>
    <3>1. p = "tick" /\ quit /\ requests = <<"shutdown">>
      BY <1>1, <2>3 DEF CallsInv, CallsFit, RequestsFit
    <3>2. requests' = <<"shutdown", "refresh">>
      BY <1>1, <2>3, <3>1, ShortSequences
    <3> QED
      BY <1>1, <1>2, <3>1, <3>2 DEF RequestsFit
  <2> QED
    BY <2>1, <2>2, <2>3
<1> QED
  BY <1>1, <1>2, <1>3, <1>4 DEF CallsInv, CallsFit

\* A call returns, to the next turn or to the end.
LEMMA ReturnFits ==
  ASSUME CallsInv, Answered, Returns, UNCHANGED <<requests, node>>,
         shown' \in 0 .. MaxStatus, quit' = quit,
         where' \in {"tick", "cleanup"} \/ where' = NextRound
  PROVE  CallsInv'
<1>1. requests = << >> /\ ~proposed
  BY AnsweredIsAlone
<1>2. /\ command' = "none" /\ reply' = << >> /\ requests' = << >>
      /\ UNCHANGED <<worker, proposed, status, listener>>
  BY <1>1 DEF Returns, node
<1>3. where' \in {"tick", "cleanup", "drain"} /\ (where' = "drain" => ~quit)
  BY DEF NextRound
<1>4. ControlsOK'
  BY <1>2, <1>3 DEF CallsInv, ControlsOK, Place
<1> QED
  BY <1>1, <1>2, <1>3, <1>4 DEF CallsInv, CallsFit, RequestsFit

LEMMA EnterCalls ==
  ASSUME CallsInv, Enter
  PROVE  CallsInv'
<1>1. where = "keys" /\ ~quit /\ requests = << >>
  BY DEF Enter, CallsInv, CallsFit, RequestsFit
<1>2. \/ Clear \/ Help(HelpLines) \/ Help(1) \/ Exit
      \/ \E c \in Command : Call("keys", c)
  BY DEF Enter, Command, OneWord
<1>3. quit \in BOOLEAN
  BY DEF CallsInv, ControlsOK
<1>4. CASE Clear \/ Help(HelpLines) \/ Help(1)
  <2>1. where' = "tick" /\ UNCHANGED <<command, shown, quit, channel, node>>
    BY <1>4 DEF Clear, Help, Done
  <2> QED
    BY <1>1, <1>3, <2>1, CallsStay DEF Place
<1>5. CASE Exit
  <2>1. CASE worker # "running"
    <3>1. where' = "cleanup" /\ UNCHANGED <<command, shown, quit, channel, node>>
      BY <1>5, <2>1 DEF Exit, app
    <3> QED
      BY <1>1, <1>3, <3>1, CallsStay DEF Place
  <2>2. CASE worker = "running"
    <3>1. /\ where' = "tick" /\ quit' = TRUE /\ requests' = Append(requests, "shutdown")
          /\ UNCHANGED <<command, shown, reply, worker, proposed, status, listener>>
      BY <1>5, <2>2 DEF Exit, Done, node
    <3>2. requests' = <<"shutdown">>
      BY <1>1, <3>1, ShortSequences
    <3>3. ControlsOK'
      BY <3>1 DEF CallsInv, ControlsOK, Place
    <3>4. RequestsFit'
      BY <3>1, <3>2 DEF RequestsFit
    <3> QED
      BY <1>1, <2>2, <3>1, <3>3, <3>4 DEF CallsInv, CallsFit
  <2> QED
    BY <2>1, <2>2
<1>6. CASE \E c \in Command : Call("keys", c)
  BY <1>6, CallFits
<1> QED
  BY <1>2, <1>4, <1>5, <1>6

LEMMA MainKeepsCalls ==
  ASSUME CallsInv, Main
  PROVE  CallsInv'
<1>1. /\ quit \in BOOLEAN
      /\ where \in {"start", "spawned", "drain", "keys"} => ~quit /\ requests = << >>
  BY DEF CallsInv, ControlsOK, CallsFit, RequestsFit
<1>2. CASE DoesNotStart \/ NoTerminal \/ Cleanup \/ EditPanics
  BY <1>2, ExitsCalls DEF DoesNotStart, NoTerminal, Cleanup, EditPanics, Place, Over
<1>3. CASE Start
  <2>1. /\ where = "start" /\ where' = "spawned" /\ worker' = "running" /\ listener' = "binding"
        /\ UNCHANGED <<command, shown, quit, requests, reply, proposed, status>>
    BY <1>3 DEF Start, Goes, app, channel
  <2>2. ControlsOK'
    BY <2>1 DEF CallsInv, ControlsOK, Place
  <2> QED
    BY <1>1, <2>1, <2>2 DEF CallsInv, CallsFit, RequestsFit
<1>4. CASE TerminalBreaks
  <2>1. where \in {"drain", "keys"} /\ where' = "cleanup"
        /\ UNCHANGED <<command, shown, quit, channel, node>>
    BY <1>4 DEF TerminalBreaks, app, channel
  <2> QED
    BY <1>1, <2>1, CallsStay DEF Place
<1>5. CASE FirstStatus \/ Due
  BY <1>5, CallFits DEF FirstStatus, Due
<1>6. CASE NoKey \/ EnterBlank \/ Up \/ Down \/ Type(Ascii) \/ Type(Wide) \/ Backspace \/ Left \/ Right
  <2>1. where = "keys" /\ where' = "tick" /\ UNCHANGED <<command, shown, quit, channel, node>>
    BY <1>6 DEF NoKey, EnterBlank, Up, Down, Scrolled, Type, Backspace, Left, Right, Edited,
                Goes, app, channel
  <2> QED
    BY <1>1, <2>1, CallsStay DEF Place
<1>7. CASE Quit
  <2>1. where = "keys" /\ where' = "tick" /\ quit' = TRUE
        /\ UNCHANGED <<command, shown, channel, node>>
    BY <1>7 DEF Quit, Goes
  <2> QED
    BY <1>1, <2>1, CallsStay DEF Place
<1>8. CASE DrainAndDraw
  <2>1. where = "drain" /\ where' = "keys" /\ UNCHANGED <<command, shown, quit, channel, node>>
    BY <1>8 DEF DrainAndDraw, Goes
  <2> QED
    BY <1>1, <2>1, CallsStay DEF Place
<1>9. CASE NotDue
  <2>1. where = "tick" /\ where' = NextRound /\ UNCHANGED <<command, shown, quit, channel, node>>
    BY <1>9 DEF NotDue, Goes, app, channel
  <2>2. requests # << >> => quit
    BY <2>1 DEF CallsInv, CallsFit, RequestsFit
  <2>3. where' = IF quit THEN "cleanup" ELSE "drain"
    BY <2>1 DEF NextRound
  <2> QED
    BY <1>1, <2>1, <2>2, <2>3, CallsStay DEF Place
<1>10. CASE Enter
  BY <1>10, EnterCalls
<1>11. GotStatus => reply[1].status \in 0 .. MaxStatus
  <2> SUFFICES ASSUME GotStatus PROVE reply[1].status \in 0 .. MaxStatus
    OBVIOUS
  <2>1. PICK a \in Answer : reply = <<a>>
    BY DEF CallsInv, ControlsOK, GotStatus
  <2> QED
    BY <2>1 DEF Answer
<1>12. shown \in 0 .. MaxStatus
  BY DEF CallsInv, ControlsOK
<1>13. CASE Refreshed
  <2>1. /\ Answered /\ Returns /\ where' = NextRound /\ UNCHANGED <<quit, requests, node>>
        /\ shown' = IF GotStatus THEN reply[1].status ELSE shown
    BY <1>13 DEF Refreshed
  <2> QED
    BY <1>11, <1>12, <2>1, ReturnFits
<1>14. CASE Reported
  <2>1. Answered /\ Returns /\ where' = "tick" /\ UNCHANGED <<shown, quit, requests, node>>
    BY <1>14 DEF Reported, Done
  <2> QED
    BY <1>12, <2>1, ReturnFits
<1>15. CASE Listed
  <2>1. /\ Answered /\ GotStatus /\ Returns /\ where' = "tick" /\ UNCHANGED <<quit, requests, node>>
        /\ shown' = IF command = "status" THEN reply[1].status ELSE shown
    BY <1>15 DEF Listed, Done
  <2> QED
    BY <1>11, <1>12, <2>1, ReturnFits
<1>16. CASE ListFails
  <2>1. Answered /\ Returns /\ where' = "cleanup" /\ UNCHANGED <<shown, quit, requests, node>>
    BY <1>16 DEF ListFails, app
  <2> QED
    BY <1>12, <2>1, ReturnFits
<1> QED
  BY <1>2, <1>3, <1>4, <1>5, <1>6, <1>7, <1>8, <1>9, <1>10, <1>13, <1>14, <1>15, <1>16
  DEF Main, Edit

\* The request a worker takes is the only one, unless it is shutdown.
LEMMA TakenIsAlone ==
  ASSUME CallsInv, NEW c \in Command \cup {"refresh"}, Taken(c)
  PROVE  where = "waiting" /\ reply = << >> /\ command = c /\ Tail(requests) = << >> /\ ~proposed
<1>1. requests # << >> /\ Head(requests) = c /\ c # "shutdown"
  BY DEF Taken, Command, OneWord
<1>2. requests = <<command>> /\ where = "waiting" /\ reply = << >>
  <2>1. CASE requests = <<"shutdown", "refresh">> \/ requests = <<"shutdown">>
    BY <1>1, <2>1, ShortSequences
  <2> QED
    BY <1>1, <2>1 DEF CallsInv, CallsFit, RequestsFit
<1> QED
  BY <1>1, <1>2, ShortSequences DEF CallsInv, CallsFit

LEMMA WorkerEndsCalls ==
  ASSUME CallsInv, WorkerEnds
  PROVE  CallsInv'
<1>1. /\ worker = "running" /\ worker' = "gone" /\ requests' = << >> /\ proposed' = FALSE
      /\ UNCHANGED <<where, command, shown, quit, reply, status, listener>>
  BY DEF WorkerEnds, app
<1> QED
  BY <1>1 DEF CallsInv, ControlsOK, CallsFit, RequestsFit

LEMMA ServeCalls ==
  ASSUME CallsInv, Serve
  PROVE  CallsInv'
<1>1. Ok \in Answer /\ Failed \in Answer
  <2>1. status \in 0 .. MaxStatus /\ 0 \in 0 .. MaxStatus
    BY TerminalAssumption DEF CallsInv, ControlsOK
  <2> QED
    BY <2>1 DEF Ok, Failed, Answer
<1>2. ASSUME NEW c \in Command \cup {"refresh"}, NEW a \in Answer, Served(c, a) PROVE CallsInv'
  <2>1. /\ Taken(c) /\ requests' = Tail(requests) /\ reply' = <<a>>
        /\ UNCHANGED <<where, command, shown, quit, worker, proposed, status, listener>>
    BY <1>2 DEF Served, app, node
  <2>2. where = "waiting" /\ Tail(requests) = << >> /\ ~proposed
    BY <2>1, TakenIsAlone
  <2>3. ControlsOK'
    BY <2>1 DEF CallsInv, ControlsOK
  <2> QED
    BY <2>1, <2>2, <2>3 DEF CallsInv, CallsFit, RequestsFit
<1>3. CASE ProposePut
  <2>1. /\ Taken("put") /\ requests' = Tail(requests) /\ proposed' = TRUE
        /\ UNCHANGED <<where, command, shown, quit, reply, worker, status, listener>>
    BY <1>3 DEF ProposePut, app
  <2>2. where = "waiting" /\ reply = << >> /\ Tail(requests) = << >>
    BY <2>1, TakenIsAlone DEF Command
  <2>3. ControlsOK'
    BY <2>1 DEF CallsInv, ControlsOK
  <2>4. worker = "running"
    BY <2>1 DEF Taken
  <2> QED
    BY <2>1, <2>2, <2>3, <2>4 DEF CallsInv, CallsFit, RequestsFit
<1>4. CASE WorkerEnds
  BY <1>4, WorkerEndsCalls
<1>5. {"get", "keys", "scan", "status", "refresh", "campaign", "put"} \subseteq Command \cup {"refresh"}
  BY DEF Command, OneWord
<1> QED
  BY <1>1, <1>2, <1>3, <1>4, <1>5 DEF Serve

LEMMA OthersKeepCalls ==
  ASSUME CallsInv,
         \/ Serve \/ PutApplied \/ StatusChanges \/ WorkerLogs \/ WorkerCrashes
         \/ NetworkCloses \/ Bind
  PROVE  CallsInv'
<1>1. CASE Serve
  BY <1>1, ServeCalls
<1>2. CASE PutApplied
  <2>1. /\ proposed /\ proposed' = FALSE /\ reply' = <<Ok>>
        /\ UNCHANGED <<where, command, shown, quit, requests, worker, status, listener>>
    BY <1>2 DEF PutApplied, app
  <2>2. Ok \in Answer
    BY DEF Ok, Answer, CallsInv, ControlsOK
  <2>3. ControlsOK'
    BY <2>1, <2>2 DEF CallsInv, ControlsOK
  <2> QED
    BY <2>1, <2>3 DEF CallsInv, CallsFit, RequestsFit
<1>3. CASE StatusChanges
  <2>1. /\ status < MaxStatus /\ status' = status + 1
        /\ UNCHANGED <<where, command, shown, quit, requests, reply, worker, proposed, listener>>
    BY <1>3 DEF StatusChanges, app, channel
  <2>2. status' \in 0 .. MaxStatus
    BY <2>1, TerminalAssumption DEF CallsInv, ControlsOK
  <2>3. ControlsOK'
    BY <2>1, <2>2 DEF CallsInv, ControlsOK
  <2> QED
    BY <2>1, <2>3 DEF CallsInv, CallsFit, RequestsFit
<1>4. CASE WorkerLogs \/ Bind
  <2>1. /\ UNCHANGED <<where, command, shown, quit, requests, reply, worker, proposed, status>>
        /\ listener' = listener \/ listener' \in {"up", "failed"}
    BY <1>4 DEF WorkerLogs, Bind, app, channel, node
  <2>2. ControlsOK'
    BY <2>1 DEF CallsInv, ControlsOK
  <2> QED
    BY <2>1, <2>2 DEF CallsInv, CallsFit, RequestsFit
<1>5. CASE WorkerCrashes \/ NetworkCloses
  BY <1>5, WorkerEndsCalls DEF WorkerCrashes, NetworkCloses
<1> QED
  BY <1>1, <1>2, <1>3, <1>4, <1>5

LEMMA CallsInit == Init => CallsInv
<1> SUFFICES ASSUME Init PROVE CallsInv
  OBVIOUS
<1>1. 0 \in 0 .. MaxStatus
  BY TerminalAssumption
<1>2. ControlsOK
  BY <1>1 DEF Init, ControlsOK, Place
<1> QED
  BY <1>2 DEF Init, CallsInv, CallsFit, RequestsFit

LEMMA CallsNext == CallsInv /\ [Next]_vars => CallsInv'
<1> SUFFICES ASSUME CallsInv, [Next]_vars PROVE CallsInv'
  OBVIOUS
<1>1. CASE Main
  BY <1>1, MainKeepsCalls
<1>2. CASE UNCHANGED vars
  <2>1. UNCHANGED <<where, command, shown, quit, requests, reply, worker, proposed, status, listener>>
    BY <1>2 DEF vars, app, channel, node
  <2>2. ControlsOK'
    BY <2>1 DEF CallsInv, ControlsOK
  <2> QED
    BY <2>1, <2>2 DEF CallsInv, CallsFit, RequestsFit
<1> QED
  BY <1>1, <1>2, OthersKeepCalls DEF Next

-----------------------------------------------------------------------------
(* The lines.                                                              *)

LinesOK ==
  /\ lines \in 0 .. MaxLines /\ offset \in 0 .. MaxOffset
  /\ height \in Height \cup {FirstHeight}
  /\ logs \in 0 .. MaxLogs + 1

\* The lines still to come: the last one of a worker that is not gone, and those
\* of the command in progress.
LastWord == IF worker = "gone" THEN 0 ELSE 1
InProgress == IF where = "waiting" /\ command # "refresh" THEN HelpLines + 1 ELSE 0

LinesFit ==
  /\ lines + logs + LastWord + InProgress <= MaxLines
  /\ worker # "gone" => logs <= MaxLogs

LinesInv == LinesOK /\ LinesFit

LEMMA Sizes ==
  /\ MaxLines \in Nat /\ MaxOffset \in Nat /\ MaxLogs \in Nat /\ HelpLines \in Nat
  /\ MaxLines <= MaxOffset /\ HelpLines > 1
  BY TerminalAssumption

LEMMA FewerFit ==
  ASSUME NEW l \in Nat, NEW w \in Nat, NEW i \in Nat, NEW w2 \in Nat, NEW i2 \in Nat,
         l + w + i <= MaxLines, w2 <= w, i2 <= i
  PROVE  l + w2 + i2 <= MaxLines
  BY Sizes

LEMMA OneMoreFits ==
  ASSUME NEW l \in Nat, NEW g \in Nat, NEW i \in Nat,
         l + g + 1 + (HelpLines + 2) <= MaxLines, i <= HelpLines + 1
  PROVE  l + (g + 1) + 1 + i <= MaxLines
  BY Sizes

LEMMA ReservedType == LastWord \in {0, 1} /\ InProgress \in {0, HelpLines + 1}
  BY DEF LastWord, InProgress

\* Lines that have room are shown.
LEMMA ShowFits ==
  ASSUME LinesInv, NEW n \in Nat, Show(n), lines + n <= MaxLines
  PROVE  lines' = lines + n /\ lines' \in 0 .. MaxLines /\ offset' \in 0 .. MaxOffset
<1>1. lines' = lines + n /\ offset' \in {offset, lines + n}
  BY DEF Show
<1>2. lines \in 0 .. MaxLines /\ offset \in 0 .. MaxOffset
  BY DEF LinesInv, LinesOK
<1> QED
  BY <1>1, <1>2, Sizes

\* A step that prints nothing, of a main thread that has nothing more to print.
LEMMA LinesStay ==
  ASSUME LinesInv, UNCHANGED <<lines, height, logs>>, offset' \in 0 .. MaxOffset,
         where' # "waiting" \/ command' = "refresh" \/ UNCHANGED <<where, command>>,
         worker' = worker \/ worker' = "gone" \/ (worker' = "running" /\ worker # "gone")
  PROVE  LinesInv'
<1>1. LinesOK'
  BY DEF LinesInv, LinesOK
<1>2. LastWord' \in {0, 1} /\ LastWord' <= LastWord
  BY DEF LastWord
<1>3. InProgress' \in {0, InProgress}
  BY DEF InProgress
<1>4. lines \in Nat /\ logs \in Nat /\ lines + logs \in Nat
  BY DEF LinesInv, LinesOK
<1>5. lines' + logs' + LastWord' + InProgress' <= MaxLines
  <2>1. /\ LastWord \in Nat /\ LastWord' \in Nat /\ InProgress \in Nat /\ InProgress' \in Nat
        /\ InProgress' <= InProgress
    BY <1>2, <1>3, Sizes, ReservedType
  <2>2. lines + logs + LastWord + InProgress <= MaxLines
    BY DEF LinesInv, LinesFit
  <2>3. lines + logs + LastWord' + InProgress' <= MaxLines
    BY <1>2, <1>4, <2>1, <2>2, FewerFit
  <2> QED
    BY <2>3
<1>6. worker' # "gone" => logs' <= MaxLogs
  BY DEF LinesInv, LinesFit
<1> QED
  BY <1>1, <1>5, <1>6 DEF LinesInv, LinesFit

\* The end of a command that printed what it had room for.
LEMMA DoneFits ==
  ASSUME LinesInv, NEW n \in Nat, Done(n), worker' = worker,
         lines + logs + LastWord + (n + 1) <= MaxLines
  PROVE  LinesInv'
<1>1. lines \in Nat /\ logs \in Nat /\ n + 1 \in Nat
  BY DEF LinesInv, LinesOK
<1>2. where' = "tick" /\ Show(n + 1) /\ UNCHANGED <<height, logs>>
  BY DEF Done
<1>3. LastWord' = LastWord /\ InProgress' = 0
  BY <1>2 DEF LastWord, InProgress
<1>4. lines + (n + 1) <= MaxLines
  BY <1>1, Sizes, ReservedType
<1>5. lines' = lines + (n + 1) /\ lines' \in 0 .. MaxLines /\ offset' \in 0 .. MaxOffset
  BY <1>1, <1>2, <1>4, ShowFits
<1>6. lines' + logs' + LastWord' + InProgress' <= MaxLines
  BY <1>1, <1>2, <1>3, <1>5, Sizes, ReservedType
<1>7. LinesOK'
  BY <1>2, <1>5 DEF LinesInv, LinesOK
<1> QED
  BY <1>2, <1>6, <1>7 DEF LinesInv, LinesFit

LEMMA EnterLines ==
  ASSUME LinesInv, Enter
  PROVE  LinesInv'
<1>1. where = "keys"
  BY DEF Enter
<1>2. lines \in Nat /\ logs \in Nat /\ offset \in 0 .. MaxOffset /\ InProgress = 0
  BY <1>1 DEF LinesInv, LinesOK, InProgress
<1>3. CASE Clear
  <2>1. /\ where' = "tick" /\ lines' = 0 /\ offset' = 0 /\ UNCHANGED <<height, logs, worker>>
    BY <1>3 DEF Clear, node
  <2>2. LinesOK'
    BY <2>1, Sizes DEF LinesInv, LinesOK
  <2>3. LastWord' = LastWord /\ InProgress' = 0
    BY <2>1 DEF LastWord, InProgress
  <2>4. lines' + logs' + LastWord' + InProgress' <= MaxLines
    BY <1>2, <2>1, <2>3, Sizes, ReservedType DEF LinesInv, LinesFit
  <2> QED
    BY <2>1, <2>2, <2>4 DEF LinesInv, LinesFit
<1>4. CASE /\ Room(HelpLines + 1)
           /\ Help(HelpLines) \/ Help(1) \/ Exit \/ \E c \in Command : Call("keys", c)
  <2>1. /\ lines + logs + LastWord + (HelpLines + 1) <= MaxLines
        /\ lines + logs + LastWord + (1 + 1) <= MaxLines
    BY <1>2, <1>4, Sizes, ReservedType DEF Room
  <2>2. CASE Help(HelpLines) \/ Help(1)
    BY <2>1, <2>2, Sizes, DoneFits DEF Help, node
  <2>3. CASE Exit
    <3>1. CASE worker = "running"
      BY <2>1, <2>3, <3>1, DoneFits DEF Exit, node
    <3>2. CASE worker # "running"
      <4>1. where' = "cleanup" /\ UNCHANGED <<lines, offset, height, logs, worker>>
        BY <2>3, <3>2 DEF Exit, app, node
      <4> QED
        BY <1>2, <4>1, LinesStay
    <3> QED
      BY <3>1, <3>2
  <2>4. CASE \E c \in Command : Call("keys", c)
    <3>1. UNCHANGED <<lines, offset, height, logs, worker>>
      BY <2>4 DEF Call, app, node
    <3>2. LastWord' = LastWord /\ InProgress' \in {0, HelpLines + 1}
      BY <3>1 DEF LastWord, InProgress
    <3>3. lines' + logs' + LastWord' + InProgress' <= MaxLines
      <4>1. /\ LastWord' \in Nat /\ InProgress' \in Nat /\ LastWord \in Nat /\ LastWord' <= LastWord
            /\ InProgress' <= HelpLines + 1 /\ lines + logs \in Nat /\ HelpLines + 1 \in Nat
        BY <1>2, <3>2, Sizes, ReservedType
      <4>2. lines + logs + LastWord' + InProgress' <= MaxLines
        BY <2>1, <4>1, FewerFit
      <4> QED
        BY <3>1, <4>2
    <3> QED
      BY <3>1, <3>3 DEF LinesInv, LinesOK, LinesFit
  <2> QED
    BY <1>4, <2>2, <2>3, <2>4
<1> QED
  BY <1>3, <1>4 DEF Enter, Command, OneWord

LEMMA MainKeepsLines ==
  ASSUME CallsInv, LinesInv, Main
  PROVE  LinesInv'
<1>1. /\ lines \in 0 .. MaxLines /\ logs \in 0 .. MaxLogs + 1 /\ offset \in 0 .. MaxOffset
      /\ lines \in Nat /\ logs \in Nat
  BY DEF LinesInv, LinesOK
<1>2. CASE DoesNotStart \/ NoTerminal \/ Cleanup \/ EditPanics
  <2>1. /\ UNCHANGED <<lines, offset, height, logs>>
        /\ worker' = "gone" /\ where' # "waiting"
    BY <1>2 DEF DoesNotStart, NoTerminal, Cleanup, EditPanics, Exits, Goes, app
  <2> QED
    BY <1>1, <2>1, LinesStay
<1>3. CASE Start
  <2>1. /\ UNCHANGED <<lines, offset, height, logs>>
        /\ worker' = "running" /\ where = "start" /\ where' = "spawned"
    BY <1>3 DEF Start, Goes, app
  <2> QED
    BY <1>1, <2>1, LinesStay DEF CallsInv, CallsFit
<1>4. CASE TerminalBreaks \/ NoKey \/ EnterBlank \/ NotDue \/ ListFails \/ Refreshed \/ Quit
  <2>1. /\ UNCHANGED <<lines, offset, height, logs, worker>>
        /\ where' # "waiting"
    BY <1>4 DEF TerminalBreaks, NoKey, EnterBlank, NotDue, ListFails, Refreshed, Quit, Goes,
                NextRound, app, node
  <2> QED
    BY <1>1, <2>1, LinesStay
<1>5. CASE FirstStatus \/ Due
  <2>1. /\ UNCHANGED <<lines, offset, height, logs, worker>>
        /\ command' = "refresh"
    BY <1>5 DEF FirstStatus, Due, Call, app, node
  <2> QED
    BY <1>1, <2>1, LinesStay
<1>6. CASE Type(Ascii) \/ Type(Wide) \/ Backspace \/ Left \/ Right
  <2>1. /\ UNCHANGED <<lines, offset, height, logs, worker>>
        /\ where' = "tick"
    BY <1>6 DEF Type, Backspace, Left, Right, Edited, Goes, node
  <2> QED
    BY <1>1, <2>1, LinesStay
<1>7. CASE Up \/ Down
  <2>1. /\ UNCHANGED <<lines, height, logs, worker>>
        /\ where' = "tick"
    BY <1>7 DEF Up, Down, Scrolled, Goes, node
  <2>2. offset' \in 0 .. MaxOffset
    BY <1>1, <1>7, Sizes DEF Up, Down, Scrolled, Minus
  <2> QED
    BY <2>1, <2>2, LinesStay
<1>8. CASE DrainAndDraw
  <2>1. /\ where = "drain" /\ where' = "keys" /\ Show(logs) /\ logs' = 0
        /\ height' \in Height /\ worker' = worker
    BY <1>8 DEF DrainAndDraw, Goes, node
  <2>2. LastWord' = LastWord /\ InProgress' = 0 /\ InProgress = 0
    BY <2>1 DEF LastWord, InProgress
  <2>3. lines + logs + LastWord <= MaxLines
    BY <1>1, <2>2, ReservedType DEF LinesInv, LinesFit
  <2>4. lines + logs <= MaxLines
    BY <1>1, <2>3, Sizes, ReservedType
  <2>5. lines' = lines + logs /\ lines' \in 0 .. MaxLines /\ offset' \in 0 .. MaxOffset
    BY <1>1, <2>1, <2>4, ShowFits
  <2>6. lines' + logs' + LastWord' + InProgress' <= MaxLines
    BY <1>1, <2>1, <2>2, <2>3, <2>5, Sizes, ReservedType
  <2>7. LinesOK'
    BY <2>1, <2>5, Sizes DEF LinesOK
  <2> QED
    BY <2>1, <2>6, <2>7, Sizes DEF LinesInv, LinesFit
<1>9. CASE Enter
  BY <1>9, EnterLines
<1>10. where = "waiting" /\ command # "refresh" =>
         lines + logs + LastWord + (HelpLines + 1) <= MaxLines
  BY DEF LinesInv, LinesFit, InProgress
<1>11. CASE Reported
  <2>1. where = "waiting" /\ command # "refresh" /\ Done(1) /\ worker' = worker
    BY <1>11 DEF Reported, Answered, node
  <2>2. lines + logs + LastWord + (1 + 1) <= MaxLines
    BY <1>1, <1>10, <2>1, Sizes, ReservedType
  <2> QED
    BY <2>1, <2>2, DoneFits
<1>12. CASE Listed
  <2>1. PICK k \in StoreSize : Done(Printed(k))
    BY <1>12 DEF Listed
  <2>2. where = "waiting" /\ command # "refresh" /\ worker' = worker
    BY <1>12 DEF Listed, Answered, node
  <2>3. k \in Nat /\ k < HelpLines
    BY TerminalAssumption
  <2>4. Printed(k) \in Nat /\ Printed(k) <= HelpLines
    BY <2>3, Sizes DEF Printed, AtLeastOne
  <2>5. lines + logs + LastWord + (Printed(k) + 1) <= MaxLines
    <3> DEFINE n == Printed(k)
    <3> HIDE DEF n
    <3>1. n \in Nat /\ n <= HelpLines
      BY <2>4 DEF n
    <3>2. lines + logs + LastWord + (n + 1) <= MaxLines
      BY <1>1, <1>10, <2>2, <3>1, Sizes, ReservedType
    <3> QED
      BY <3>2 DEF n
  <2> QED
    BY <2>1, <2>2, <2>4, <2>5, DoneFits
<1> QED
  BY <1>2, <1>3, <1>4, <1>5, <1>6, <1>7, <1>8, <1>9, <1>11, <1>12 DEF Main, Edit

LEMMA OthersKeepLines ==
  ASSUME CallsInv, LinesInv,
         \/ Serve \/ PutApplied \/ StatusChanges \/ WorkerLogs \/ WorkerCrashes
         \/ NetworkCloses \/ Bind
  PROVE  LinesInv'
<1>1. /\ lines \in Nat /\ logs \in Nat /\ offset \in 0 .. MaxOffset
      /\ logs \in 0 .. MaxLogs + 1
  BY DEF LinesInv, LinesOK
<1>2. CASE Serve \/ PutApplied \/ StatusChanges \/ NetworkCloses \/ Bind
  <2>1. /\ UNCHANGED <<where, command, lines, offset, height, logs>>
        /\ worker' = worker \/ worker' = "gone"
    BY <1>2 DEF Serve, Served, ProposePut, WorkerEnds, PutApplied, StatusChanges,
                NetworkCloses, Bind, app, node
  <2> QED
    BY <1>1, <2>1, LinesStay
<1>3. CASE WorkerLogs
  <2>1. /\ worker = "running" /\ logs < MaxLogs /\ logs' = logs + 1
        /\ lines + logs + 1 + (IF where = "waiting" THEN HelpLines + 2 ELSE 1) <= MaxLines
        /\ UNCHANGED <<where, command, lines, offset, height, worker>>
    BY <1>3 DEF WorkerLogs, Room, app, node
  <2>2. /\ LastWord' = 1 /\ InProgress' \in {0, HelpLines + 1}
        /\ where # "waiting" => InProgress' = 0
    BY <2>1 DEF LastWord, InProgress
  <2>3. lines' + logs' + LastWord' + InProgress' <= MaxLines
    <3>1. CASE where = "waiting"
      <4>1. /\ InProgress' \in Nat /\ InProgress' <= HelpLines + 1
            /\ lines + logs + 1 + (HelpLines + 2) <= MaxLines
        BY <2>1, <2>2, <3>1, Sizes
      <4>2. lines + (logs + 1) + 1 + InProgress' <= MaxLines
        BY <1>1, <4>1, OneMoreFits
      <4> QED
        BY <2>1, <2>2, <4>2
    <3>2. CASE where # "waiting"
      <4>1. lines + logs + 1 + 1 <= MaxLines
        BY <2>1, <3>2
      <4>2. lines + (logs + 1) + 1 + 0 <= MaxLines
        BY <1>1, <4>1
      <4> QED
        BY <2>1, <2>2, <3>2, <4>2
    <3> QED
      BY <3>1, <3>2
  <2>4. logs' \in 0 .. MaxLogs + 1 /\ logs' <= MaxLogs
    BY <1>1, <2>1, Sizes
  <2> QED
    BY <2>1, <2>3, <2>4 DEF LinesInv, LinesOK, LinesFit
<1>4. CASE WorkerCrashes
  <2>1. /\ worker = "running" /\ worker' = "gone" /\ logs' = logs + 1
        /\ UNCHANGED <<where, command, lines, offset, height>>
    BY <1>4 DEF WorkerCrashes, WorkerEnds, app
  <2>2. LastWord = 1 /\ LastWord' = 0 /\ InProgress' = InProgress
    BY <2>1 DEF LastWord, InProgress
  <2>3. lines' + logs' + LastWord' + InProgress' <= MaxLines
    BY <1>1, <2>1, <2>2, Sizes, ReservedType DEF LinesInv, LinesFit
  <2>4. logs' \in 0 .. MaxLogs + 1
    BY <1>1, <2>1, Sizes DEF LinesInv, LinesFit
  <2> QED
    BY <2>1, <2>3, <2>4 DEF LinesInv, LinesOK, LinesFit
<1> QED
  BY <1>2, <1>3, <1>4

LEMMA LinesInit == Init => LinesInv
<1> SUFFICES ASSUME Init PROVE LinesInv
  OBVIOUS
<1>1. /\ lines = Banner /\ offset = 0 /\ height = FirstHeight /\ logs = 0
      /\ LastWord = 1 /\ InProgress = 0
  BY DEF Init, LastWord, InProgress
<1>2. Banner \in Nat /\ Banner < MaxLines
  BY TerminalAssumption
<1> QED
  BY <1>1, <1>2, Sizes DEF LinesInv, LinesOK, LinesFit

LEMMA LinesNext == CallsInv /\ LinesInv /\ [Next]_vars => LinesInv'
<1> SUFFICES ASSUME CallsInv, LinesInv, [Next]_vars PROVE LinesInv'
  OBVIOUS
<1>1. CASE Main
  BY <1>1, MainKeepsLines
<1>2. CASE UNCHANGED vars
  <2>1. UNCHANGED <<where, command, lines, offset, height, logs, worker>>
    BY <1>2 DEF vars, app, node
  <2> QED
    BY <2>1, LinesStay DEF LinesInv, LinesOK
<1> QED
  BY <1>1, <1>2, OthersKeepLines DEF Next

-----------------------------------------------------------------------------
\* The state keeps its types, for every size of the line, the window and the
\* output.  Two of them are facts about the threads: the cursor is within the
\* line, and at most two requests are in the channel of the handle.
THEOREM TerminalTypes == Spec => []TypeOK
<1> DEFINE Inv == EditorInv /\ CallsInv /\ LinesInv
<1>1. Init => Inv
  BY EditorInit, CallsInit, LinesInit
<1>2. Inv /\ [Next]_vars => Inv'
  BY EditorNext, CallsNext, LinesNext
<1>3. Inv => TypeOK
  BY RequestsType DEF EditorInv, LineOK, CallsInv, ControlsOK, LinesInv, LinesOK, TypeOK
<1> HIDE DEF Inv
<1> QED
  BY <1>1, <1>2, <1>3, PTL DEF Spec
=============================================================================
