----------------------------- MODULE DbMonitor -----------------------------
(***************************************************************************)
(* dbmonitor keeps the data base in flash (dest) a copy of the one in      *)
(* memory (src): the main thread turns inotify's IN_MODIFY into posts of a *)
(* semaphore, backup_processor copies, and a signal handler running on the *)
(* main thread has the last changes saved before the program ends.         *)
(*                                                                         *)
(* The writers of src are other processes (the central-control server,     *)
(* sqlapp); SQLite's exclusive lock keeps the copy out while one commits.  *)
(***************************************************************************)
EXTENDS Naturals

CONSTANTS MaxTries,   \* retry_count, 30
          MaxVersion, \* bound: commits to src
          MaxPosts    \* bound: a page is written only below this many posts

ASSUME MonitorAssumption ==
    MaxTries \in Nat \ {0} /\ MaxVersion \in Nat /\ MaxPosts \in Nat \ {0}

VARIABLES
    src, dest,    \* versions of the two data bases
    writer,       \* idle, or holding the lock: nothing written yet, pages
                  \* written unnoticed (no watch yet), pages written
    event,        \* an unread IN_MODIFY; inotify merges equal ones
    sem,          \* the semaphore
    late,         \* src's mtime is a later second than cur_time
    backup_done, endapp_flag,
    main, thread, \* where the two threads are
    back,         \* where the handler returns to
    tries,        \* failed copies of this round
    sigSrc, sigAt, \* ghost: src's version and the thread's place at the signal
    missed,       \* ghost: last version committed without a notice
    gaveUp,       \* ghost: the last round of copies failed
    unopened      \* ghost: the last round had nothing copied and counts as done

ghosts == <<sigSrc, sigAt, missed, gaveUp, unopened>>
writerVars == <<src, writer>>
threadVars == <<backup_done, thread, tries>>
vars == <<src, dest, writer, event, sem, late, backup_done, endapp_flag,
          main, thread, back, tries, sigSrc, sigAt, missed, gaveUp, unopened>>

NoSignal == sigAt = "unsent"
Watching == main \notin {"ota", "start"} /\ back # "start"
----------------------------------------------------------------------------
(* A process writing the source. *)

Lock ==
    /\ writer = "idle" /\ src < MaxVersion
    /\ writer' = "locked"
    /\ UNCHANGED <<src, dest, event, sem, late, threadVars, endapp_flag, main, back, ghosts>>

\* A page reaches the file: IN_MODIFY if it is watched, and the file's mtime is
\* now, in the second of cur_time or a later one.
Write ==
    /\ writer # "idle" /\ sem < MaxPosts
    /\ writer' = IF Watching THEN "written" ELSE "quiet"
    /\ event' = (event \/ Watching)
    /\ late' \in {late, TRUE}
    /\ UNCHANGED <<src, dest, sem, threadVars, endapp_flag, main, back, ghosts>>

Commit ==
    /\ writer \in {"quiet", "written"}
    /\ writer' = "idle"
    /\ src' = src + 1
    /\ missed' = IF writer = "quiet" THEN src' ELSE missed
    /\ UNCHANGED <<dest, event, sem, late, threadVars, endapp_flag, main, back, sigSrc, sigAt, gaveUp, unopened>>

----------------------------------------------------------------------------
(* The main thread. *)

\* do_ota: after an update the data base is copied once, before anything else.
Ota ==
    /\ main = "ota"
    /\ main' = "start"
    /\ dest' = dest \/ (writer = "idle" /\ dest' = src)
    /\ UNCHANGED <<writerVars, event, sem, late, threadVars, endapp_flag, back, ghosts>>

\* The signal handlers are in place; sem_init, then inotify_add_watch.
Watch ==
    /\ main = "start"
    /\ main' = "watch"
    /\ sem' = 0
    /\ UNCHANGED <<writerVars, dest, event, late, threadVars, endapp_flag, back, ghosts>>

CreateThread ==
    /\ main = "watch"
    /\ main' = "epoll" /\ thread' = "wait"
    /\ UNCHANGED <<writerVars, dest, event, sem, late, backup_done, tries, endapp_flag, back, ghosts>>

EpollReturns ==
    /\ main = "epoll" /\ event
    /\ main' = "event"
    /\ UNCHANGED <<writerVars, dest, event, sem, late, threadVars, endapp_flag, back, ghosts>>

\* Mutant of ReadEvent: the thread is told only when it waits.
ReadEventIfWaiting ==
    /\ main = "event"
    /\ event' = FALSE /\ sem' = IF thread = "sem" THEN sem + 1 ELSE sem
    /\ main' = "epoll"
    /\ UNCHANGED <<writerVars, dest, late, threadVars, endapp_flag, back, ghosts>>

\* inotify_event_handler
ReadEvent ==
    /\ main = "event"
    /\ event' = FALSE /\ sem' = sem + 1
    /\ main' = "epoll"
    /\ UNCHANGED <<writerVars, dest, late, threadVars, endapp_flag, back, ghosts>>

\* Mutant of Signal: the thread is not woken.
SignalUnposted ==
    /\ main \in {"start", "watch", "epoll", "event"} /\ NoSignal
    /\ main' = "handler" /\ back' = main
    /\ endapp_flag' = TRUE
    /\ sigSrc' = src /\ sigAt' = IF backup_done THEN "done" ELSE thread
    /\ UNCHANGED <<writerVars, dest, event, sem, late, threadVars, missed, gaveUp, unopened>>

\* term_handler runs wherever the main thread is, and waits for backup_done.
Signal ==
    /\ main \in {"start", "watch", "epoll", "event"} /\ NoSignal
    /\ main' = "handler" /\ back' = main
    /\ endapp_flag' = TRUE /\ sem' = sem + 1
    /\ sigSrc' = src /\ sigAt' = IF backup_done THEN "done" ELSE thread
    /\ UNCHANGED <<writerVars, dest, event, late, threadVars, missed, gaveUp, unopened>>

\* Only epoll_wait notices that it was interrupted.
HandlerReturns ==
    /\ main = "handler" /\ backup_done
    /\ main' = IF back = "epoll" THEN "end" ELSE back
    /\ UNCHANGED <<writerVars, dest, event, sem, late, threadVars, endapp_flag, back, ghosts>>

\* pthread_join on the detached thread returns at once, and main() returns.
End ==
    /\ main = "end"
    /\ main' = "ended"
    /\ sem' = sem + 1
    /\ UNCHANGED <<writerVars, dest, event, late, threadVars, endapp_flag, back, ghosts>>

----------------------------------------------------------------------------
(* backup_processor; it ends with the process. *)

Running(at) == thread = at /\ main # "ended"

Wait ==
    /\ Running("wait")
    /\ backup_done' = FALSE
    /\ thread' = "sem"
    /\ UNCHANGED <<writerVars, dest, event, sem, late, tries, endapp_flag, main, back, ghosts>>

\* usleep(BACKUP_PERIOD_USEC), then sem_wait.
SemWait ==
    /\ Running("sem") /\ sem > 0
    /\ sem' = sem - 1
    /\ thread' = "again"
    /\ UNCHANGED <<writerVars, dest, event, late, backup_done, tries, endapp_flag, main, back, ghosts>>

Again ==
    /\ Running("again")
    /\ late' = FALSE /\ tries' = 0
    /\ thread' = "copy"
    /\ UNCHANGED <<writerVars, dest, event, sem, backup_done, endapp_flag, main, back, ghosts>>

\* backupdb: the copy is what src was when its last step was taken.
Copy ==
    /\ Running("copy") /\ writer = "idle"
    /\ dest' = src
    /\ thread' = "copied" /\ gaveUp' = FALSE /\ unopened' = FALSE
    /\ UNCHANGED <<writerVars, event, sem, late, backup_done, tries, endapp_flag, main, back, sigSrc, sigAt, missed>>

\* A data base that cannot be opened, or a copy that cannot be begun, is no error
\* to backupdb: its result is 0.
CopyUnopened ==
    /\ Running("copy")
    /\ thread' = "copied" /\ gaveUp' = FALSE /\ unopened' = TRUE
    /\ UNCHANGED <<writerVars, dest, event, sem, late, backup_done, tries, endapp_flag, main, back, sigSrc, sigAt, missed>>

\* Mutants of CopyFails: one try too many; the round counts as done however it
\* ended.
CopyFailsOnceMore ==
    /\ Running("copy")
    /\ IF tries = MaxTries
       THEN thread' = "check" /\ gaveUp' = TRUE /\ tries' = 0
       ELSE tries' = tries + 1 /\ UNCHANGED <<thread, gaveUp>>
    /\ UNCHANGED <<writerVars, dest, event, sem, late, backup_done, endapp_flag, main, back, sigSrc, sigAt, missed, unopened>>
CopyFailsDone ==
    /\ Running("copy")
    /\ IF tries + 1 = MaxTries
       THEN thread' = "copied" /\ gaveUp' = TRUE /\ tries' = 0
       ELSE tries' = tries + 1 /\ UNCHANGED <<thread, gaveUp>>
    /\ UNCHANGED <<writerVars, dest, event, sem, late, backup_done, endapp_flag, main, back, sigSrc, sigAt, missed, unopened>>

\* ... or it fails: the source is locked, or flash cannot be written.
CopyFails ==
    /\ Running("copy")
    /\ IF tries + 1 = MaxTries
       THEN thread' = "check" /\ gaveUp' = TRUE /\ tries' = 0
       ELSE tries' = tries + 1 /\ UNCHANGED <<thread, gaveUp>>
    /\ UNCHANGED <<writerVars, dest, event, sem, late, backup_done, endapp_flag, main, back, sigSrc, sigAt, missed, unopened>>

Copied ==
    /\ Running("copied")
    /\ backup_done' = TRUE
    /\ thread' = "check"
    /\ UNCHANGED <<writerVars, dest, event, sem, late, tries, endapp_flag, main, back, ghosts>>

\* Mutant of Check: the thread serves one change only.
CheckOnce ==
    /\ Running("check")
    /\ thread' = IF late THEN "again" ELSE "end"
    /\ UNCHANGED <<writerVars, dest, event, sem, late, backup_done, tries, endapp_flag, main, back, ghosts>>

Check ==
    /\ Running("check")
    /\ thread' = IF late THEN "again" ELSE IF endapp_flag THEN "end" ELSE "wait"
    /\ UNCHANGED <<writerVars, dest, event, sem, late, backup_done, tries, endapp_flag, main, back, ghosts>>

----------------------------------------------------------------------------
Init ==
    /\ src = 0 /\ dest = 0 /\ writer = "idle"
    /\ event = FALSE /\ sem = 0 /\ late = FALSE
    /\ backup_done = FALSE /\ endapp_flag = FALSE
    /\ main \in {"ota", "start"} /\ thread = "none" /\ back = "none" /\ tries = 0
    /\ sigSrc = 0 /\ sigAt = "unsent" /\ missed = 0 /\ gaveUp = FALSE /\ unopened = FALSE

Writer == Lock \/ Write \/ Commit
MainStep == Ota \/ Watch \/ CreateThread \/ EpollReturns \/ ReadEvent \/ HandlerReturns \/ End
ThreadStep == Wait \/ SemWait \/ Again \/ Copy \/ CopyUnopened \/ CopyFails \/ Copied \/ Check

Next == Writer \/ MainStep \/ ThreadStep \/ Signal

\* The two threads run; nobody has to write, or to end what it writes.
Spec == Init /\ [][Next]_vars /\ WF_vars(MainStep) /\ WF_vars(ThreadStep)

----------------------------------------------------------------------------
(* Properties. *)

Places == {"none", "wait", "sem", "again", "copy", "copied", "check", "end"}

TypeOK ==
    /\ src \in 0..MaxVersion /\ dest \in 0..src /\ missed \in 0..src
    /\ writer \in {"idle", "locked", "quiet", "written"}
    /\ sem \in Nat /\ tries \in 0..(MaxTries - 1)
    /\ event \in BOOLEAN /\ late \in BOOLEAN
    /\ gaveUp \in BOOLEAN /\ unopened \in BOOLEAN
    /\ backup_done \in BOOLEAN /\ endapp_flag \in BOOLEAN
    /\ main \in {"ota", "start", "watch", "epoll", "event", "handler", "end", "ended"}
    /\ back \in {"none", "start", "watch", "epoll", "event"}
    /\ thread \in Places
    /\ sigSrc \in 0..src /\ sigAt \in Places \cup {"done", "unsent"}

\* A change made while the file is watched is never forgotten before it is
\* saved: it is in inotify's queue, in the semaphore, or in the round under
\* way.  The exception is a round whose copies all failed, or that was taken for
\* a copy though nothing was opened: it is not repeated.
NoLostChange ==
    dest # src /\ src # missed /\ NoSignal /\ ~gaveUp /\ ~unopened =>
        event \/ sem > 0 \/ thread \in {"again", "copy"}

\* ... and it is saved in the end.
Saved ==
    \A v \in 1..MaxVersion :
        (src = v /\ v # missed) ~> (dest >= v \/ gaveUp \/ unopened \/ ~NoSignal)

\* When the program ends on a signal, every change committed before the signal
\* is saved, unless it came after a copy had finished and before the thread
\* went back to wait: backup_done then speaks of an earlier change; or the last
\* copy was none.
SavedAtExit ==
    main = "ended" /\ ~unopened /\ sigAt \notin {"done", "copied", "check"} => dest >= sigSrc

\* A signal that interrupts epoll_wait ends the program, unless the copies fail.
Ends ==
    (main = "handler" /\ back = "epoll") ~> (main = "ended" \/ gaveUp)

=============================================================================
