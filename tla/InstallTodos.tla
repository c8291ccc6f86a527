---------------------------- MODULE InstallTodos ----------------------------
(***************************************************************************)
(* The pilot-install-todos tool (src/pilot-install-todos.c): main parses  *)
(* its options, connects with pilot_connect, opens the conduit and the    *)
(* ToDoDB database over DLP, and install_ToDos reads the local file and   *)
(* writes one ToDo record for every '\n'-terminated line; then main       *)
(* closes the database, logs, ends the sync and closes the socket.        *)
(*                                                                         *)
(* The file is a sequence of characters, NL standing for '\n'.  A record  *)
(* is the line's text (pack_ToDo's other fields are constants).  The DLP  *)
(* calls are outside the source tree: each succeeds exactly when the      *)
(* socket is connected and the handheld is still attached.  The handheld  *)
(* may be unplugged at any moment.                                        *)
(***************************************************************************)
EXTENDS Naturals, Sequences

CONSTANTS
  Files,      \* the contents the local file can have (sequences of characters)
  NL          \* the character '\n'

VARIABLES
  pc,         \* where main is
  args,       \* [help, filename, port, env]: -h or -v given, -f given,
              \* -p given, $PILOTPORT set
  found,      \* the file exists, so fopen succeeds
  file,       \* the file's contents
  sd,         \* what pilot_connect returned: "sock" or "bad" (-1)
  link,       \* the handheld is still attached
  i,          \* install_ToDos' i: characters consumed
  beg,        \* index in file of the first character of begPtr's line
  db,         \* the records ToDoDB holds on the handheld, in order
  exitCode    \* the process's exit status once pc = "exit"

vars == <<pc, args, found, file, sd, link, i, beg, db, exitCode>>

(* The characters the files are made of.                                  *)
Chars == UNION {{f[k] : k \in DOMAIN f} : f \in Files}

Pcs == {"start", "connect", "conduit", "opendb", "fopen", "loop", "close", "exit"}

TypeOK ==
  /\ pc \in Pcs
  /\ args \in [help : BOOLEAN, filename : BOOLEAN, port : BOOLEAN, env : BOOLEAN]
  /\ found \in BOOLEAN /\ file \in Files
  /\ sd \in {"none", "sock", "bad"} /\ link \in BOOLEAN
  /\ i \in Nat /\ beg \in Nat
  /\ db \in Seq(Seq(Chars))
  /\ exitCode \in {0, 1}

(* A DLP call on sd: dlp_* returns < 0 on a bad socket or a lost link.    *)
DlpOk == sd = "sock" /\ link

Init ==
  /\ pc = "start"
  /\ args \in [help : BOOLEAN, filename : BOOLEAN, port : BOOLEAN, env : BOOLEAN]
  /\ found \in BOOLEAN /\ file \in Files
  /\ sd = "none" /\ link = TRUE
  /\ i = 0 /\ beg = 1 /\ db = <<>> /\ exitCode = 0

-----------------------------------------------------------------------------
(* main: option parsing.  -h (display_help) and -v (display_splash)     *)
(* exit(0) from the getopt loop.  Without -f it exits; a port comes from  *)
(* -p or $PILOTPORT, and with neither (argc > 1 since -f was given) it    *)
(* exits.                                                                 *)
ParseArgs ==
  /\ pc = "start"
  /\ CASE args.help -> pc' = "exit" /\ exitCode' = 0
       [] ~args.filename \/ (~args.port /\ ~args.env) -> pc' = "exit" /\ exitCode' = 1
       [] OTHER -> pc' = "connect" /\ UNCHANGED exitCode
  /\ UNCHANGED <<args, found, file, sd, link, i, beg, db>>

(* sd = pilot_connect(port): a connected socket, or -1 when any step of   *)
(* the connection failed (UsbSocket models which).                        *)
Connect ==
  /\ pc = "connect"
  /\ sd' \in {"sock", "bad"} /\ pc' = "conduit"
  /\ UNCHANGED <<args, found, file, link, i, beg, db, exitCode>>

(* "Did we get a valid socket descriptor back?": dlp_OpenConduit(sd) < 0  *)
(* exits; a second dlp_OpenConduit's result is ignored.                   *)
OpenConduit ==
  /\ pc = "conduit"
  /\ IF DlpOk THEN pc' = "opendb" /\ UNCHANGED exitCode ELSE pc' = "exit" /\ exitCode' = 1
  /\ UNCHANGED <<args, found, file, sd, link, i, beg, db>>

(* dlp_OpenDB(ToDoDB); on failure a sync-log entry and exit(1).           *)
OpenDB ==
  /\ pc = "opendb"
  /\ IF DlpOk THEN pc' = "fopen" /\ UNCHANGED exitCode ELSE pc' = "exit" /\ exitCode' = 1
  /\ UNCHANGED <<args, found, file, sd, link, i, beg, db>>

-----------------------------------------------------------------------------
(* install_ToDos.  fopen failing (the file is missing) or malloc        *)
(* failing (for any file) exits at once, with ToDoDB still open and the  *)
(* sync never ended; otherwise the file is read whole and scanned one     *)
(* character per iteration of the while loop.                             *)
FOpen ==
  /\ pc = "fopen"
  /\ \/ found /\ pc' = "loop" /\ i' = 0 /\ beg' = 1 /\ UNCHANGED exitCode
     \/ pc' = "exit" /\ exitCode' = 1 /\ UNCHANGED <<i, beg>>
  /\ UNCHANGED <<args, found, file, sd, link, db>>

(* At '\n' the line from begPtr is packed and dlp_WriteRecord'd, its      *)
(* result ignored, and begPtr moves past the '\n'.                         *)
Scan ==
  /\ pc = "loop" /\ i < Len(file)
  /\ i' = i + 1
  /\ IF file[i + 1] = NL
       THEN /\ db' = IF DlpOk THEN Append(db, SubSeq(file, beg, i)) ELSE db
            /\ beg' = i + 2
       ELSE UNCHANGED <<db, beg>>
  /\ UNCHANGED <<pc, args, found, file, sd, link, exitCode>>

(* The loop ends when i reaches filelen; install_ToDos returns.           *)
ScanDone ==
  /\ pc = "loop" /\ i >= Len(file)
  /\ pc' = "close"
  /\ UNCHANGED <<args, found, file, sd, link, i, beg, db, exitCode>>

(* dlp_CloseDB, dlp_AddSyncLogEntry, dlp_EndOfSync and pi_close, all     *)
(* results ignored, and main returns 0.                                   *)
Finish ==
  /\ pc = "close"
  /\ pc' = "exit" /\ exitCode' = 0
  /\ UNCHANGED <<args, found, file, sd, link, i, beg, db>>

(* The handheld is unplugged (or its HotSync cancelled).                  *)
Unplug ==
  /\ link /\ pc # "exit"
  /\ link' = FALSE
  /\ UNCHANGED <<pc, args, found, file, sd, i, beg, db, exitCode>>

Exited == pc = "exit" /\ UNCHANGED vars

Next ==
  \/ ParseArgs \/ Connect \/ OpenConduit \/ OpenDB
  \/ FOpen \/ Scan \/ ScanDone \/ Finish
  \/ Unplug \/ Exited

Spec == Init /\ [][Next]_vars

-----------------------------------------------------------------------------
(* The lines of a text as its help text describes the file: every '\n'   *)
(* ends a line, and text after the last '\n' is a last line.              *)
RECURSIVE LinesOf(_, _)
LinesOf(t, cur) ==
  IF t = <<>> THEN (IF cur = <<>> THEN <<>> ELSE <<cur>>)
  ELSE IF Head(t) = NL THEN <<cur>> \o LinesOf(Tail(t), <<>>)
  ELSE LinesOf(Tail(t), Append(cur, Head(t)))

(* "For each new line in the local file, a new task is created in the    *)
(* ToDo database on the Palm" (display_help): when the tool has connected *)
(* and exits with status 0 (main's return after install_ToDos and         *)
(* dlp_EndOfSync), ToDoDB holds one record per line of the file, in order.*)
EveryLineInstalled ==
  (pc = "exit" /\ exitCode = 0 /\ sd # "none") => db = LinesOf(file, <<>>)
=============================================================================
