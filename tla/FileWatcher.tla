---------------------------- MODULE FileWatcher ----------------------------
(***************************************************************************)
(* The schema file watcher of internal/watch/watcher.go: the fsnotify      *)
(* watches, the loop that takes their events, and the debounce timers      *)
(* whose callbacks run the reload.  EmbeddedServer says what a reload does *)
(* and who starts and stops the watcher.                                   *)
(*                                                                         *)
(* A file's content is a version number, 0 when there is no such file.     *)
(* Time is abstract: a timer that has been set may expire at any moment.   *)
(***************************************************************************)
EXTENDS Naturals, FiniteSets

CONSTANTS
  Files,            \* the schema files, each in a directory of its own
  MayBeMissing,     \* those that may not exist at first
  Edits,            \* how files are changed: "write" in place, "replace" by rename
  MaxEdits          \* bound: changes of files

ASSUME FilesAssumption ==
  /\ MayBeMissing \subseteq Files
  /\ Edits \subseteq {"write", "replace"}
  /\ MaxEdits \in Nat

Timers == 1..MaxEdits   \* every call of handleFileChange makes a new timer
NoTimer == 0

VARIABLES
  disk,     \* the version of each file
  edits,    \* changes made so far
  watched,  \* what fsnotify watches for a file
  events,   \* files with an event nobody has taken yet
  loop,     \* where watchLoop is
  event,    \* the files whose event it is handling: one or none
  stopped,  \* fw.stopped
  fwDone,   \* fw.ctx is canceled and the fsnotify watcher closed
  fwMu,     \* the timer whose callback holds fw.mu while it reloads
  pending,  \* fw.pending
  timer,    \* fw.timer
  timers    \* what has become of each timer

diskVars == <<disk, edits>>
loopVars == <<events, loop, event>>
fwVars == <<watched, loopVars, stopped, fwDone, fwMu, pending, timer, timers>>

FileTypeOK ==
  /\ disk \in [Files -> Nat] /\ edits \in 0..MaxEdits
  /\ watched \in [Files -> {"none", "file", "directory"}]
  /\ events \subseteq Files
  /\ loop \in {"off", "select", "handle", "exited"}
  /\ event \subseteq Files /\ (loop = "handle" <=> event # {})
  /\ stopped \in BOOLEAN /\ fwDone \in BOOLEAN
  /\ fwMu \in Timers \cup {NoTimer}
  /\ pending \subseteq Files
  /\ timer \in Timers \cup {NoTimer}
  /\ timers \in [Timers -> {"unused", "set", "expired", "reloading", "over"}]

FileInit ==
  /\ disk \in [Files -> {0, 1}] /\ \A f \in Files \ MayBeMissing : disk[f] = 1
  /\ edits = 0
  /\ watched = [f \in Files |-> "none"]
  /\ events = {} /\ loop = "off" /\ event = {}
  /\ stopped = FALSE /\ fwDone = FALSE
  /\ fwMu = NoTimer /\ pending = {} /\ timer = NoTimer
  /\ timers = [t \in Timers |-> "unused"]

----------------------------------------------------------------------------
(***************************************************************************)
(* The file system and fsnotify                                            *)
(***************************************************************************)
\* A write is reported as Write, or Create, under either watch. A rename over
\* the file is a Create in its directory; a watch of the file itself ends with
\* the inode and reports neither Write nor Create.
Edit(f, how) ==
  /\ how \in Edits
  /\ edits < MaxEdits
  /\ edits' = edits + 1
  /\ disk' = [disk EXCEPT ![f] = edits + 2]
  /\ IF how = "replace" /\ watched[f] = "file"
     THEN /\ watched' = [watched EXCEPT ![f] = "none"]
          /\ UNCHANGED events
     ELSE /\ events' = IF watched[f] = "none" THEN events ELSE events \cup {f}
          /\ UNCHANGED watched
  /\ UNCHANGED <<loop, event, stopped, fwDone, fwMu, pending, timer, timers>>

\* Start watches the path of a file that exists, the directory of one that does
\* not.
AddWatch(f) ==
  /\ watched[f] = "none"
  /\ watched' = [watched EXCEPT ![f] = IF disk[f] # 0 THEN "file" ELSE "directory"]
  /\ UNCHANGED <<diskVars, loopVars, stopped, fwDone, fwMu, pending, timer, timers>>

StartLoop ==
  /\ \A f \in Files : watched[f] # "none"
  /\ loop' = "select"
  /\ UNCHANGED <<diskVars, watched, events, event, stopped, fwDone, fwMu,
                 pending, timer, timers>>

----------------------------------------------------------------------------
(***************************************************************************)
(* watchLoop and the timers                                                *)
(***************************************************************************)
TakeEvent(f) ==
  /\ loop = "select"
  /\ f \in events
  /\ events' = events \ {f}
  /\ loop' = "handle" /\ event' = {f}
  /\ UNCHANGED <<diskVars, watched, stopped, fwDone, fwMu, pending, timer, timers>>

ExitLoop ==
  /\ loop = "select"
  /\ fwDone
  /\ loop' = "exited"
  /\ UNCHANGED <<diskVars, watched, events, event, stopped, fwDone, fwMu,
                 pending, timer, timers>>

\* timer.Stop(): a timer that has expired already is not called back.
TimersWithout(t) ==
  [s \in Timers |-> IF s = t /\ timers[s] = "set" THEN "over" ELSE timers[s]]

NextTimer == CHOOSE t \in Timers :
               timers[t] = "unused" /\ \A s \in 1..(t - 1) : timers[s] # "unused"

\* Mutant: a timer that is there already will do.
RearmFirstOnly ==
  IF timer = NoTimer
  THEN /\ timer' = NextTimer
       /\ timers' = [timers EXCEPT ![NextTimer] = "set"]
  ELSE UNCHANGED <<timer, timers>>

Rearm ==
  /\ timer' = NextTimer
  /\ timers' = [TimersWithout(timer) EXCEPT ![NextTimer] = "set"]

HandleFileChange ==
  /\ loop = "handle"
  /\ fwMu = NoTimer
  /\ loop' = "select" /\ event' = {}
  /\ IF stopped
     THEN UNCHANGED <<pending, timer, timers>>
     ELSE /\ pending' = pending \cup event
          /\ Rearm
  /\ UNCHANGED <<diskVars, watched, events, stopped, fwDone, fwMu>>

\* The callback starts: unless fw.ctx is done it goes for fw.mu.
Expire(t) ==
  /\ timers[t] = "set"
  /\ timers' = [timers EXCEPT ![t] = IF fwDone THEN "over" ELSE "expired"]
  /\ UNCHANGED <<diskVars, watched, loopVars, stopped, fwDone, fwMu, pending, timer>>

\* It keeps fw.mu until the reload has returned.
CallbackLocks(t) ==
  /\ timers[t] = "expired"
  /\ fwMu = NoTimer
  /\ ~stopped /\ pending # {}
  /\ fwMu' = t
  /\ pending' = {}
  /\ timers' = [timers EXCEPT ![t] = "reloading"]
  /\ UNCHANGED <<diskVars, watched, loopVars, stopped, fwDone, timer>>

CallbackFindsNothing(t) ==
  /\ timers[t] = "expired"
  /\ fwMu = NoTimer
  /\ stopped \/ pending = {}
  /\ timers' = [timers EXCEPT ![t] = "over"]
  /\ UNCHANGED <<diskVars, watched, loopVars, stopped, fwDone, fwMu, pending, timer>>

CallbackReturns(t) ==
  /\ timers[t] = "reloading"
  /\ timers' = [timers EXCEPT ![t] = "over"]
  /\ fwMu' = NoTimer
  /\ UNCHANGED <<diskVars, watched, loopVars, stopped, fwDone, pending, timer>>

----------------------------------------------------------------------------
(***************************************************************************)
(* FileWatcher.Stop                                                        *)
(***************************************************************************)
\* Mutant: Stop does not take fw.mu.
CallbackAwayUnchecked == TRUE

CallbackAway == fwMu = NoTimer

MarkStopped ==
  /\ CallbackAway
  /\ stopped' = TRUE
  /\ timers' = TimersWithout(timer)
  /\ timer' = NoTimer
  /\ pending' = {}
  /\ UNCHANGED <<diskVars, watched, loopVars, fwDone, fwMu>>

CloseWatcher ==
  /\ fwDone' = TRUE
  /\ watched' = [f \in Files |-> "none"]
  /\ events' = {}
  /\ UNCHANGED <<diskVars, loop, event, stopped, fwMu, pending, timer, timers>>

LoopGone == loop \in {"off", "exited"}

\* What runs by itself: the loop, and the timers up to their reload.
WatcherStep ==
  \/ \E f \in Files : TakeEvent(f)
  \/ ExitLoop
  \/ HandleFileChange
  \/ \E t \in Timers : Expire(t) \/ CallbackFindsNothing(t)
=============================================================================
