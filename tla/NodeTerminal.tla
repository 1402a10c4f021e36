---------------------------- MODULE NodeTerminal ----------------------------
(***************************************************************************)
(* One node process of 19-raft-replication as its user sees it: the        *)
(* terminal of src/bin/node.rs (the main thread), the worker thread it     *)
(* calls through NodeHandle, and the listener thread (src/runtime.rs).     *)
(*                                                                         *)
(* RaftWorker says what the worker does with a call and with its peers;    *)
(* here the worker answers, and its role, term and leader are one number   *)
(* that changes.  Of the text on the screen the model keeps how many lines *)
(* there are and which of them the output window starts at; of the input   *)
(* line, the bytes, because cursor_position is used as a byte index.       *)
(***************************************************************************)
EXTENDS Naturals, Sequences, FiniteSets

CONSTANTS
  Banner,      \* lines App::new prints (4)
  FirstHeight, \* last_output_height before the first drawing (20)
  Height,      \* the heights the output window may be given, borders included
  HelpLines,   \* lines HELP prints (10)
  StoreSize,   \* how many keys the store may hold
  Word,        \* first words of a command line, in upper case
  MaxInput,    \* bound on the bytes of the input line
  MaxLines,    \* bound on the output lines
  MaxOffset,   \* bound on scroll_offset, which Down moves without limit
  MaxStatus,   \* bound on the changes of role, term and leader
  MaxLogs      \* bound on the log lines not yet drained

ASSUME TerminalAssumption ==
  /\ {Banner, FirstHeight, HelpLines, MaxInput, MaxLines, MaxOffset, MaxStatus,
      MaxLogs} \subseteq Nat
  /\ Height \subseteq Nat /\ StoreSize \subseteq Nat
  /\ Banner < MaxLines /\ MaxLines <= MaxOffset
  /\ HelpLines > 1 /\ \A s \in StoreSize : s < HelpLines

VARIABLES
  where,      \* where the main thread is
  command,    \* the command it is executing, "refresh" for update_status
  input,      \* App::input, as bytes
  cursor,     \* App::cursor_position
  lines,      \* App::output_lines, how many
  offset,     \* App::scroll_offset
  height,     \* App::last_output_height
  shown,      \* App::role, leader_id and term: what the status bar says
  quit,       \* App::should_quit
  requests,   \* the channel from the handle to the worker
  reply,      \* the channel of the call in progress: the answer, if there is one
  logs,       \* the log channel: lines not yet drained
  worker,     \* "none", "running" or "gone"
  proposed,   \* the worker remembers a PUT of this terminal
  status,     \* the role, term and leader of the node
  listener    \* "none", "binding", "up" or "failed"

app     == <<input, cursor, lines, offset, height, shown, quit>>
channel == <<requests, reply>>
node    == <<worker, proposed, status, listener>>
vars    == <<where, command, app, channel, logs, node>>

-----------------------------------------------------------------------------
(* Data.                                                                   *)

\* A line of UTF-8: characters of one byte, and of two.
Byte == {"ascii", "lead", "tail"}
Ascii == <<"ascii">>
Wide  == <<"lead", "tail">>

OneWord == {"exit", "help", "keys", "scan", "clear", "status", "campaign"}
Command == OneWord \cup {"get", "put", "invalid"}

Spelling ==
  [exit     |-> {"EXIT", "E"},      help |-> {"HELP", "H"},
   keys     |-> {"KEYS", "K"},      scan |-> {"SCAN", "SC"},
   clear    |-> {"CLEAR", "CL"},    status |-> {"STATUS", "S"},
   campaign |-> {"CAMPAIGN", "C"},  get |-> {"GET", "G"},
   put      |-> {"PUT", "P"}]

\* ConsoleCommand::parse on a line of n words.  A one-word command takes no
\* notice of further words; GET and PUT need one and two.
Parses(first, n, c) ==
  \/ c \in OneWord /\ first \in Spelling[c]
  \/ c = "get" /\ first \in Spelling[c] /\ n = 2
  \/ c = "put" /\ first \in Spelling[c] /\ n = 3

Parse(first, n) ==
  IF \E c \in Command \ {"invalid"} : Parses(first, n, c)
  THEN CHOOSE c \in Command \ {"invalid"} : Parses(first, n, c)
  ELSE "invalid"

Answer == [ok : BOOLEAN, status : 0 .. MaxStatus]

Ok     == [ok |-> TRUE, status |-> status]
Failed == [ok |-> FALSE, status |-> 0]

Minus(i, j) == IF i > j THEN i - j ELSE 0
Smaller(i, j) == IF i < j THEN i ELSE j

-----------------------------------------------------------------------------
(* The output window.                                                      *)

LastTop == Minus(lines, height)
AtBottom == offset >= LastTop

\* The first line render_ui shows.
Top == Smaller(offset, LastTop)

\* Faulty: asks whether the window is at the bottom after printing.
PrintThenLook(n) ==
  /\ lines' = lines + n
  /\ offset' = IF n > 0 /\ offset >= Minus(lines + n, height) THEN lines + n ELSE offset

\* n more lines; a window at the bottom follows them.
Show(n) ==
  /\ lines' = lines + n
  /\ offset' = IF n > 0 /\ AtBottom THEN lines + n ELSE offset

-----------------------------------------------------------------------------
Init ==
  /\ where = "start" /\ command = "none"
  /\ input = << >> /\ cursor = 0
  /\ lines = Banner /\ offset = 0 /\ height = FirstHeight
  /\ shown = 0 /\ quit = FALSE
  /\ requests = << >> /\ reply = << >> /\ logs = 0
  /\ worker = "none" /\ proposed = FALSE /\ status = 0
  /\ listener = "none"

Place == {"start", "spawned", "drain", "keys", "waiting", "tick",
          "cleanup", "ended", "failed", "panicked"}
Over == {"ended", "failed", "panicked"}

TypeOK ==
  /\ where \in Place
  /\ command \in Command \cup {"none", "refresh"}
  /\ input \in Seq(Byte) /\ Len(input) <= MaxInput
  /\ cursor \in 0 .. Len(input)
  /\ lines \in 0 .. MaxLines /\ offset \in 0 .. MaxOffset
  /\ height \in Height \cup {FirstHeight}
  /\ shown \in 0 .. MaxStatus /\ quit \in BOOLEAN
  /\ requests \in Seq(Command \cup {"shutdown", "refresh"}) /\ Len(requests) <= 2
  /\ reply = << >> \/ reply \in {<<a>> : a \in Answer}
  /\ logs \in 0 .. MaxLogs + 1
  /\ worker \in {"none", "running", "gone"} /\ proposed \in BOOLEAN
  /\ status \in 0 .. MaxStatus
  /\ listener \in {"none", "binding", "up", "failed"}

Goes(p, q) == where = p /\ where' = q

\* The process is over for every thread.
Exits(p, q) ==
  /\ Goes(p, q)
  /\ worker' = "gone" /\ requests' = << >> /\ proposed' = FALSE
  /\ UNCHANGED <<command, app, reply, logs, status, listener>>

-----------------------------------------------------------------------------
(* Start and end.                                                          *)

\* Wrong arguments, or no thread to be had.
DoesNotStart == Exits("start", "failed")

\* spawn_node: both threads are started, and nobody waits for the bind.
Start ==
  /\ Goes("start", "spawned")
  /\ worker' = "running" /\ listener' = "binding"
  /\ UNCHANGED <<command, app, channel, logs, proposed, status>>

\* The terminal cannot be set up; what was set up stays as it is.
NoTerminal == Exits("spawned", "failed")

\* An error of the terminal in draw, poll or read.
TerminalBreaks ==
  /\ where \in {"drain", "keys"} /\ where' = "cleanup"
  /\ UNCHANGED <<command, app, channel, logs, node>>

\* The terminal is given back, or not if that fails, and main returns.
Cleanup == Exits("cleanup", "ended")

-----------------------------------------------------------------------------
(* Calls of the handle: the main thread sends, and waits.                  *)

Call(p, c) ==
  /\ Goes(p, "waiting")
  /\ command' = c
  /\ requests' = IF worker = "running" THEN Append(requests, c) ELSE requests
  /\ UNCHANGED <<app, reply, logs, node>>

\* Faulty: does not notice that the worker is gone.
AnsweredInPerson == where = "waiting" /\ reply # << >>

\* The answer is there, or the worker and with it the channel is gone.
Answered == where = "waiting" /\ (reply # << >> \/ worker = "gone")
GotStatus == reply # << >> /\ reply[1].ok
Returns == command' = "none" /\ reply' = << >>

\* The end of a turn of run_tui.
NextRound == IF quit THEN "cleanup" ELSE "drain"

\* update_status takes an answer and ignores an error.
Refreshed ==
  /\ command = "refresh" /\ Answered
  /\ where' = NextRound
  /\ shown' = IF GotStatus THEN reply[1].status ELSE shown
  /\ Returns
  /\ UNCHANGED <<input, cursor, lines, offset, height, quit, requests, logs, node>>

FirstStatus == Call("spawned", "refresh")

-----------------------------------------------------------------------------
(* The loop of run_tui.                                                    *)

\* The log lines are taken and the screen drawn; the window may have been
\* resized since the last time.
DrainAndDraw ==
  /\ Goes("drain", "keys")
  /\ Show(logs)
  /\ logs' = 0
  /\ height' \in Height
  /\ UNCHANGED <<command, input, cursor, shown, quit, channel, node>>

\* No key for 100 ms, or an event that is no key.
NoKey ==
  /\ Goes("keys", "tick")
  /\ UNCHANGED <<command, app, channel, logs, node>>

\* Faulty: the status is asked for when there are log lines.
DueOnLogs == logs > 0 /\ Call("tick", "refresh")

\* 50 ms since the last status: at the latest when no key came.
Due == Call("tick", "refresh")

NotDue ==
  /\ Goes("tick", NextRound)
  /\ UNCHANGED <<command, app, channel, logs, node>>

-----------------------------------------------------------------------------
(* Keys: editing the line.                                                 *)

\* An index where a character begins, or the end of the line.
OnBoundary(i) == i = Len(input) \/ (i < Len(input) /\ input[i + 1] # "tail")

\* The bytes of the character that begins at i.
WidthAt(i) ==
  IF i + 2 <= Len(input) /\ input[i + 2] = "tail" THEN 2 ELSE 1

Edited(line, c) ==
  /\ Goes("keys", "tick")
  /\ input' = line /\ cursor' = c
  /\ UNCHANGED <<command, lines, offset, height, shown, quit, channel, logs, node>>

\* String::insert at the cursor, which then moves by one, whatever the
\* character takes.
Type(char) ==
  /\ OnBoundary(cursor)
  /\ Len(input) + Len(char) <= MaxInput
  /\ Edited(SubSeq(input, 1, cursor) \o char \o SubSeq(input, cursor + 1, Len(input)),
            cursor + 1)

\* String::remove before the cursor.
Backspace ==
  /\ cursor > 0 /\ OnBoundary(cursor - 1)
  /\ Edited(SubSeq(input, 1, cursor - 1) \o
              SubSeq(input, cursor + WidthAt(cursor - 1), Len(input)),
            cursor - 1)

\* Either of them off a character boundary.
EditPanics ==
  /\ ~OnBoundary(cursor) \/ (cursor > 0 /\ ~OnBoundary(cursor - 1))
  /\ Exits("keys", "panicked")

Left == Edited(input, Minus(cursor, 1))

\* Faulty: the end of the line does not stop the cursor.
RightUnbounded == cursor <= Len(input) /\ Edited(input, cursor + 1)

Right == Edited(input, IF cursor < Len(input) THEN cursor + 1 ELSE cursor)

Edit == Type(Ascii) \/ Type(Wide) \/ Backspace \/ EditPanics \/ Left \/ Right

-----------------------------------------------------------------------------
(* Keys: scrolling and leaving.                                            *)

Scrolled(o) ==
  /\ Goes("keys", "tick")
  /\ offset' = o
  /\ UNCHANGED <<command, input, cursor, lines, height, shown, quit, channel, logs, node>>

Up   == Scrolled(Minus(offset, 1))
Down == offset < MaxOffset /\ Scrolled(offset + 1)

\* Esc or Ctrl-C.
Quit ==
  /\ Goes("keys", "tick")
  /\ quit' = TRUE
  /\ UNCHANGED <<command, input, cursor, lines, offset, height, shown, channel, logs, node>>

-----------------------------------------------------------------------------
(* Enter.                                                                  *)

\* A command of this many lines, its echo included, has room.
Room(n) == lines + logs + 1 + n <= MaxLines

\* A line with nothing to execute is left as it is.
EnterBlank ==
  /\ Goes("keys", "tick")
  /\ UNCHANGED <<command, app, channel, logs, node>>

\* Faulty: the cursor stays where it was.
DoneKeepsCursor(n) ==
  /\ where' = "tick"
  /\ Show(n + 1)
  /\ input' = << >> /\ cursor' = cursor
  /\ UNCHANGED <<height, logs>>

\* The command has printed n lines after its echo; the line is cleared.
Done(n) ==
  /\ where' = "tick"
  /\ Show(n + 1)
  /\ input' = << >> /\ cursor' = 0
  /\ UNCHANGED <<height, logs>>

Clear ==
  /\ where' = "tick"
  /\ lines' = 0 /\ offset' = 0
  /\ input' = << >> /\ cursor' = 0
  /\ UNCHANGED <<command, height, shown, quit, channel, logs, node>>

Help(n) == Done(n) /\ UNCHANGED <<command, shown, quit, channel, node>>

\* shutdown is sent and not waited for.
Exit ==
  IF worker = "running"
  THEN /\ Done(1)
       /\ quit' = TRUE
       /\ requests' = Append(requests, "shutdown")
       /\ UNCHANGED <<command, shown, reply, node>>
  ELSE /\ where' = "cleanup"
       /\ UNCHANGED <<command, app, channel, logs, node>>

\* The commands that lines can say.
Readable == {Parse(first, n) : first \in Word, n \in 1 .. 3}

\* What the line says is chosen when it is read: the model keeps the widths of
\* its characters only.
Enter ==
  /\ where = "keys" /\ input # << >>
  /\ \E c \in Readable :
       \/ c = "clear" /\ Clear
       \/ /\ Room(HelpLines + 1)
          /\ \/ c = "help" /\ Help(HelpLines)
             \/ c = "invalid" /\ Help(1)
             \/ c = "exit" /\ Exit
             \/ /\ c \in {"put", "get", "keys", "scan", "status", "campaign"}
                /\ Call("keys", c)

\* put and campaign print what they get, an error too.
Reported ==
  /\ command \in {"put", "campaign"} /\ Answered
  /\ Done(1)
  /\ Returns
  /\ UNCHANGED <<shown, quit, requests, node>>

AtLeastOne(k) == IF k = 0 THEN 1 ELSE k

\* What get, keys, scan and status print for a store of k keys.
Printed(k) ==
  CASE command = "get" -> 1
    [] command = "status" -> 1 + AtLeastOne(k)
    [] OTHER -> AtLeastOne(k)

Listed ==
  /\ command \in {"get", "keys", "scan", "status"} /\ Answered /\ GotStatus
  /\ \E k \in StoreSize : Done(Printed(k))
  /\ shown' = IF command = "status" THEN reply[1].status ELSE shown
  /\ Returns
  /\ UNCHANGED <<quit, requests, node>>

\* Their error ends the loop.
ListFails ==
  /\ command \in {"get", "keys", "scan", "status"} /\ Answered /\ ~GotStatus
  /\ where' = "cleanup"
  /\ Returns
  /\ UNCHANGED <<app, requests, logs, node>>

Main ==
  \/ DoesNotStart \/ Start \/ NoTerminal \/ FirstStatus \/ Refreshed
  \/ DrainAndDraw \/ NoKey \/ Edit \/ Up \/ Down \/ Quit
  \/ EnterBlank \/ Enter \/ Reported \/ Listed \/ ListFails
  \/ Due \/ NotDue \/ TerminalBreaks \/ Cleanup

-----------------------------------------------------------------------------
(* The worker and the listener.                                            *)

\* The worker's end: the requests it has not taken are dropped, and the reply
\* channels in them and in pending_puts are closed.
WorkerEnds ==
  /\ worker = "running"
  /\ worker' = "gone" /\ requests' = << >> /\ proposed' = FALSE
  /\ UNCHANGED <<where, command, app, reply, status, listener>>

Taken(c) == worker = "running" /\ requests # << >> /\ Head(requests) = c

Served(c, a) ==
  /\ Taken(c)
  /\ requests' = Tail(requests) /\ reply' = <<a>>
  /\ UNCHANGED <<where, command, app, logs, node>>

\* A PUT on the leader waits until its command is applied.
ProposePut ==
  /\ Taken("put")
  /\ requests' = Tail(requests) /\ proposed' = TRUE
  /\ UNCHANGED <<where, command, app, reply, logs, worker, status, listener>>

Serve ==
  \/ \E c \in {"get", "keys", "scan", "status", "refresh", "campaign"} : Served(c, Ok)
  \/ \E c \in {"put", "campaign"} : Served(c, Failed)
  \/ ProposePut
  \/ Taken("shutdown") /\ WorkerEnds /\ UNCHANGED logs

PutApplied ==
  /\ proposed
  /\ proposed' = FALSE /\ reply' = <<Ok>>
  /\ UNCHANGED <<where, command, app, requests, logs, worker, status, listener>>

\* The role, the term or the leader changes.
StatusChanges ==
  /\ worker = "running" /\ status < MaxStatus
  /\ status' = status + 1
  /\ UNCHANGED <<where, command, app, channel, logs, worker, proposed, listener>>

WorkerLogs ==
  /\ worker = "running" /\ logs < MaxLogs
  /\ Room(IF where = "waiting" THEN HelpLines + 2 ELSE 1)
  /\ logs' = logs + 1
  /\ UNCHANGED <<where, command, app, channel, node>>

\* An error ends the worker and is its last log line.
WorkerCrashes == WorkerEnds /\ logs' = logs + 1

\* Faulty: goes on without a network.
StaysDeaf == listener = "failed" /\ worker = "running" /\ UNCHANGED vars

\* No message will ever come: the loop ends without a word.
NetworkCloses == listener = "failed" /\ WorkerEnds /\ UNCHANGED logs

\* The listener binds its address, or panics: nobody is told.
Bind ==
  /\ listener = "binding" /\ where \notin Over
  /\ listener' \in {"up", "failed"}
  /\ UNCHANGED <<where, command, app, channel, logs, worker, proposed, status>>

Next ==
  \/ Main
  \/ Serve \/ PutApplied \/ StatusChanges \/ WorkerLogs \/ WorkerCrashes \/ NetworkCloses
  \/ Bind

Spec == Init /\ [][Next]_vars

\* Threads are scheduled.  Status is due again and again, as a poll without a
\* key takes longer than its 50 ms.  That a PUT is applied is not promised.
FairSpec ==
  /\ Spec
  /\ WF_vars(Main) /\ SF_vars(Due) /\ WF_vars(Serve)
  /\ WF_vars(NetworkCloses) /\ WF_vars(Bind)

-----------------------------------------------------------------------------
(* Properties.                                                             *)

\* Only a character of more than one byte makes an edit panic, whatever keys
\* were pressed: cursor_position, which handle_key moves by characters, is a
\* sound byte index on an ASCII line.
AsciiEditsNeverPanic ==
  where = "panicked" => \E i \in 1 .. Len(input) : input[i] # "ascii"

\* What the output window shows first changes only by a scroll key, by CLEAR, by a
\* resize, or because the window was at the bottom and follows what is
\* printed; and only the Up key or a resize takes it off the bottom
\* (is_at_bottom and scroll_to_bottom, "sticky bottom").
WindowKeepsItsPlace ==
  [][/\ Top' # Top => \/ AtBottom
                      \/ where = "keys" /\ (lines' = lines \/ lines' = 0)
                      \/ height' # height
     /\ AtBottom /\ ~AtBottom' => \/ where = "keys" /\ lines' = lines
                                  \/ height' # height]_vars

\* Every call but a PUT that waits for its command returns, also when the
\* worker ends or has ended, and the user can type again or has left.
UserIsServed ==
  where = "waiting" /\ ~proposed ~> where \in {"keys"} \cup Over \/ proposed

\* The status bar comes to show the role, term and leader of the node, unless
\* they change again, the terminal is stuck in a PUT, or worker or terminal
\* end.
StatusBarFollows ==
  \A s \in 0 .. MaxStatus :
    status = s /\ worker = "running" ~>
      shown = s \/ status # s \/ proposed \/ worker = "gone"

\* A node that cannot be reached does not run on: when the bind fails its
\* worker ends, so that later calls return an error.
DeafWorkerEnds == listener = "failed" ~> worker = "gone"

\* "The newest content is visible" once the window is at the bottom: the last
\* line is among the rows inside the borders.
NewestIsVisible ==
  where = "keys" /\ AtBottom => Top + Minus(height, 2) >= lines
=============================================================================
