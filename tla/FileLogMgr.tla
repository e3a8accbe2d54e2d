---------------------------- MODULE FileLogMgr ----------------------------
(***************************************************************************)
(* The rotation of log files: FileLogMgr::onCheck and its rotate functions *)
(* (base/FileLogMgr.cpp) with FileLog (base/FileLog.cpp), against writers  *)
(* in other threads, failing system calls and crashes.                     *)
(*                                                                         *)
(* A directory maps names to files; a name is the log's own or that with a *)
(* date appended.  A file is the set of the lines in it, a line the log    *)
(* and the minute of its writing.                                          *)
(***************************************************************************)
EXTENDS Integers, Sequences, FiniteSets, Functions, FiniteSetsExt

CONSTANTS
  Log,           \* FileLog objects
  Path,          \* the path of each
  Calendars,     \* of the calendars to look at: the days of the year, from 0,
                 \* that months start with, the days of a year, the hours of a
                 \* day and the minutes of an hour; and the local clock: the
                 \* minute since the first of January that it shows in each
                 \* minute, which may be one it has shown before
  MaxTime        \* bound: minutes

ASSUME CalendarAssumption ==
  /\ Calendars \subseteq [starts : Seq(Nat), days : Nat \ {0}, hours : Nat \ {0},
                           minutes : Nat \ {0}, local : [0..MaxTime -> Nat]]
  /\ \A c \in Calendars :
       /\ c.starts # <<>> /\ c.starts[1] = 0
       /\ \A i \in DOMAIN c.starts :
            c.starts[i] < c.days /\ \A j \in 1..(i - 1) : c.starts[j] < c.starts[i]
  /\ MaxTime \in Nat
  /\ DOMAIN Path = Log

None == "none"
NoFile == 0

VARIABLES
  calendar,
  time,       \* minutes since the start
  last,       \* lastDay_, lastHour_ and lastMinute_
  month,      \* lastYear_ and lastMonth_
  check,      \* the onCheck that holds the mutex: the minute it has read, what has
              \* changed since the last one, the logs left, the one it looks at, the types it
              \* has still to compare with that one's, and how far its rotation
              \* has come
  names,      \* the directory
  content,    \* the lines of each file, by number
  logs_,      \* the logs the manager knows, one for a path
  rotateType_,
  fd_,        \* the file each log's descriptor refers to
  written,    \* ghost: every line written
  seen,       \* ghost: the minute of last
  misdated    \* ghost: the files whose name does not tell when they were written:
              \* it was given by a check in another month than the one before it,
              \* or tells a date that the clock shows again later

manager == <<last, month, check>>
disk == <<names, content>>
objects == <<logs_, rotateType_, fd_>>
logGhosts == <<written, seen, misdated>>
logVars == <<calendar, time, manager, disk, objects, logGhosts>>

-----------------------------------------------------------------------------
\* The date of a local minute.
Date(minute) ==
  LET days == (minute \div calendar.minutes) \div calendar.hours
      ofYear == days % calendar.days
      mon == Max({m \in DOMAIN calendar.starts : calendar.starts[m] <= ofYear})
  IN [year |-> days \div calendar.days, month |-> mon,
      day |-> 1 + ofYear - calendar.starts[mon],
      hour |-> (minute \div calendar.minutes) % calendar.hours,
      minute |-> minute % calendar.minutes]

\* localtime_r
DateOf(t) == Date(calendar.local[t])

\* TTime::now
Now == DateOf(time)

\* Mutant: hours are left out of the name.
StampNoHour(type) ==
  <<month.year, month.month, last.day>>
    \o (IF type = "minute" THEN <<last.minute>> ELSE <<>>)

\* What rotateDays, rotateHours and rotateMinutes append to a log's name: the
\* year and month of this check, and the rest of the last.
Stamp(type) ==
  <<month.year, month.month, last.day>>
    \o (IF type = "day" THEN <<>> ELSE <<last.hour>>)
    \o (IF type = "minute" THEN <<last.minute>> ELSE <<>>)

MonthOf(t) == [year |-> DateOf(t).year, month |-> DateOf(t).month]

\* The name that tells the day, hour or minute in which t is.
StampOf(type, t) ==
  <<DateOf(t).year, DateOf(t).month, DateOf(t).day>>
    \o (IF type = "day" THEN <<>> ELSE <<DateOf(t).hour>>)
    \o (IF type = "minute" THEN <<DateOf(t).minute>> ELSE <<>>)

\* The clock shows the day, hour or minute of t, or its month, again after it
\* has shown another.
ShownAgain(type, t) ==
  \E v, u \in 0..MaxTime :
    /\ t < v /\ v < u
    /\ \/ StampOf(type, v) # StampOf(type, t) /\ StampOf(type, u) = StampOf(type, t)
       \/ MonthOf(v) # MonthOf(t) /\ MonthOf(u) = MonthOf(t)

Unset == [day |-> -1, hour |-> -1, minute |-> -1]
NoMonth == [year |-> -1, month |-> -1]
NoCheck == [running |-> FALSE, at |-> 0, changed |-> {}, todo |-> {},
            log |-> None, types |-> <<>>, renamed |-> FALSE, opened |-> NoFile]

Own(l) == <<Path[l], <<>> >>
Rotated == {n \in DOMAIN names : n[2] # <<>>}

LogInit ==
  /\ calendar \in Calendars
  /\ time = 0
  /\ last = Unset
  /\ month = NoMonth
  /\ check = NoCheck
  /\ names = [n \in {} |-> NoFile]
  /\ content = <<>>
  /\ logs_ = {}
  /\ rotateType_ = [l \in Log |-> "none"]
  /\ fd_ = [l \in Log |-> NoFile]
  /\ written = {}
  /\ seen = 0
  /\ misdated = {}

-----------------------------------------------------------------------------
\* FileLog::open by name: the file of that name, or a new one.
Opened(name) == IF name \in DOMAIN names THEN names[name] ELSE Len(content) + 1

\* O_CREAT
CreateFile(name) ==
  IF name \in DOMAIN names THEN UNCHANGED disk
  ELSE /\ names' = [n \in DOMAIN names \cup {name} |->
                      IF n = name THEN Opened(name) ELSE names[n]]
       /\ content' = Append(content, {})

SamePath(l) == {k \in Log : Path[k] = Path[l]}

\* getFileLog of a path the manager does not know; it waits while a check has the
\* mutex.
GetFileLog(l) ==
  /\ fd_[l] = NoFile
  /\ logs_ \cap SamePath(l) = {}
  /\ ~check.running
  /\ logs_' = logs_ \cup {l}
  /\ CreateFile(Own(l))
  /\ fd_' = [fd_ EXCEPT ![l] = Opened(Own(l))]
  /\ UNCHANGED <<calendar, time, manager, rotateType_, logGhosts>>

\* removeFileLog, which goes by the path: who still has the log writes on.
RemoveFileLog(l) ==
  /\ fd_[l] # NoFile
  /\ ~check.running
  /\ logs_' = logs_ \ SamePath(l)
  /\ UNCHANGED <<calendar, time, manager, disk, rotateType_, fd_, logGhosts>>

\* setRotateType, in any thread, at any time.
SetRotateType(l) ==
  /\ fd_[l] # NoFile
  /\ rotateType_[l] = "none"
  /\ \E type \in {"day", "hour", "minute"} :
       rotateType_' = [rotateType_ EXCEPT ![l] = type]
  /\ UNCHANGED <<calendar, time, manager, disk, logs_, fd_, logGhosts>>

\* writeLog, in any thread, at any time.
WriteLog(l) ==
  /\ fd_[l] # NoFile
  /\ content' = [content EXCEPT ![fd_[l]] = @ \cup { <<l, time>> }]
  /\ written' = written \cup { <<l, time>> }
  /\ UNCHANGED <<calendar, time, manager, names, objects, seen, misdated>>

\* The clock.
Minute ==
  /\ time < MaxTime
  /\ time' = time + 1
  /\ UNCHANGED <<calendar, manager, disk, objects, logGhosts>>

-----------------------------------------------------------------------------
Reading(t) == [day |-> DateOf(t).day, hour |-> DateOf(t).hour, minute |-> DateOf(t).minute]

Changed ==
  {type \in {"day", "hour", "minute"} :
     CASE type = "day" -> last.day # Now.day
       [] type = "hour" -> last.hour # Now.hour
       [] type = "minute" -> last.minute # Now.minute}

\* onCheck up to the mutex.  The first call only takes down the time.
OnCheck ==
  /\ ~check.running
  /\ IF last = Unset
       THEN last' = Reading(time) /\ seen' = time /\ UNCHANGED <<month, check>>
       ELSE /\ Changed # {}
            /\ month' = MonthOf(time)
            /\ check' = [NoCheck EXCEPT !.running = TRUE, !.at = time,
                                        !.changed = Changed, !.todo = logs_]
            /\ UNCHANGED <<last, seen>>
  /\ UNCHANGED <<calendar, time, disk, objects, written, misdated>>

Between == check.running /\ check.types = <<>> /\ ~check.renamed

\* The next log, whose type is compared with the three in turn.
Visit(l) ==
  /\ Between
  /\ l \in check.todo
  /\ check' = [check EXCEPT !.todo = @ \ {l}, !.log = l, !.types = <<"day", "hour", "minute">>]
  /\ UNCHANGED <<calendar, time, last, month, disk, objects, logGhosts>>

\* One of the comparisons, and rotate's rename, which takes the place of
\* whatever had the name.  An empty file is left alone, and rename may fail.
Rename ==
  /\ check.types # <<>> /\ ~check.renamed
  /\ LET l == check.log
         type == Head(check.types)
         new == <<Path[l], Stamp(type)>>
         compared == [check EXCEPT !.types = Tail(@)]
     IN \/ /\ check' = compared
           /\ UNCHANGED <<names, misdated>>
        \/ /\ type \in check.changed /\ type = rotateType_[l]
           /\ content[fd_[l]] # {} /\ Own(l) \in DOMAIN names
           /\ names' = [n \in (DOMAIN names \ {Own(l)}) \cup {new} |->
                          IF n = new THEN names[Own(l)] ELSE names[n]]
           /\ misdated' = IF MonthOf(seen) = month /\ ~ShownAgain(type, seen)
                            THEN misdated
                            ELSE misdated \cup {names[Own(l)]}
           /\ check' = [compared EXCEPT !.renamed = TRUE]
  /\ UNCHANGED <<calendar, time, last, month, content, objects, written, seen>>

\* rotate opens a new file; when that fails the descriptor stays with the
\* file that was renamed.
OpenNew ==
  /\ check.renamed /\ check.opened = NoFile
  /\ \/ /\ CreateFile(Own(check.log))
        /\ check' = [check EXCEPT !.opened = Opened(Own(check.log))]
     \/ /\ check' = [check EXCEPT !.renamed = FALSE]
        /\ UNCHANGED disk
  /\ UNCHANGED <<calendar, time, last, month, objects, logGhosts>>

\* Mutant: the new descriptor is closed and the old one stays.
DupForgotten ==
  /\ check.opened # NoFile
  /\ check' = [check EXCEPT !.renamed = FALSE, !.opened = NoFile]
  /\ UNCHANGED <<calendar, time, last, month, disk, objects, logGhosts>>

\* dup2
Dup ==
  /\ check.opened # NoFile
  /\ fd_' = [fd_ EXCEPT ![check.log] = check.opened]
  /\ check' = [check EXCEPT !.renamed = FALSE, !.opened = NoFile]
  /\ UNCHANGED <<calendar, time, last, month, disk, logs_, rotateType_, logGhosts>>

\* Mutant: the next check still has the time of the last one.
LastForgotten ==
  /\ Between
  /\ check.todo = {}
  /\ check' = NoCheck
  /\ UNCHANGED <<calendar, time, last, month, disk, objects, logGhosts>>

FinishCheck ==
  /\ Between
  /\ check.todo = {}
  /\ last' = Reading(check.at)
  /\ seen' = check.at
  /\ check' = NoCheck
  /\ UNCHANGED <<calendar, time, month, disk, objects, written, misdated>>

\* The process dies and is started again.
Restart ==
  /\ last' = Unset
  /\ month' = NoMonth
  /\ check' = NoCheck
  /\ logs_' = {}
  /\ rotateType_' = [l \in Log |-> "none"]
  /\ fd_' = [l \in Log |-> NoFile]
  /\ seen' = 0
  /\ UNCHANGED <<calendar, time, disk, written, misdated>>

LogNext ==
  \/ \E l \in Log :
       GetFileLog(l) \/ RemoveFileLog(l) \/ SetRotateType(l) \/ WriteLog(l) \/ Visit(l)
  \/ Minute
  \/ OnCheck
  \/ Rename
  \/ OpenNew
  \/ Dup
  \/ FinishCheck
  \/ Restart

LogSpec == LogInit /\ [][LogNext]_logVars

-----------------------------------------------------------------------------
Line == Log \X (0..MaxTime)
Type == {"day", "hour", "minute"}

LogTypeOK ==
  /\ time \in 0..MaxTime
  /\ last = Unset \/ last.day \in 1..calendar.days
  /\ check.todo \subseteq Log
  /\ check.log \in Log \cup {None}
  /\ check.types \in Seq(Type)
  /\ \A n \in DOMAIN names : n[1] \in Range(Path) /\ names[n] \in 1..Len(content)
  /\ content \in Seq(SUBSET Line)
  /\ logs_ \subseteq Log
  /\ rotateType_ \in [Log -> Type \cup {"none"}]
  /\ fd_ \in [Log -> (1..Len(content)) \cup {NoFile}]
  /\ written \subseteq Line

\* A line that was written stays in a file that has a name, whatever is
\* rotated, fails or crashes afterwards (rotate: "rename the file", "create a
\* new file").  It does not: see FileLogMgrMonth.cfg.
NoLineLost ==
  \A line \in written : \E n \in DOMAIN names : line \in content[names[n]]

\* It does unless the file it is in was misdated: rotated by a check in another
\* month than the one before it, which mixes the new month with the old day
\* (FileLogMgr::rotateDays, rotateHours, rotateMinutes), or in a minute, hour or
\* day that the local clock shows again (TTime::now).  However late the check
\* comes and whatever the clock shows, another rotation takes no name in use.
LostOnlyIfMisdated ==
  \A line \in written :
    \/ \E n \in DOMAIN names : line \in content[names[n]]
    \/ \E file \in misdated : line \in content[file]

\* A rotated file that no log writes to any more, unless it was misdated, stays as
\* it is and keeps its name (the names that the rotate functions make).
RotatedIsFinal ==
  [][\A n \in Rotated :
       names[n] \notin Range(fd_) \cup misdated
         => n \in DOMAIN names' /\ names'[n] = names[n]
            /\ content'[names[n]] = content[names[n]]]_logVars

\* Except within a rotation, the lines of a log that the manager knows go to the
\* file of its name, if there is one (rotate's dup2).
WritersFollow ==
  \A l \in logs_ :
    Own(l) \in DOMAIN names /\ ~(check.renamed /\ check.log = l)
      => fd_[l] = names[Own(l)]

=============================================================================
