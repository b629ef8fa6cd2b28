--------------------------- MODULE DbMonitorProofs ---------------------------
(***************************************************************************)
(* Proofs about DbMonitor, for any number of tries and any bounds.         *)
(***************************************************************************)
EXTENDS DbMonitor, TLAPS

\* Before a signal came the handler has not run, and the thread exists once the
\* main thread waits for events; inside it, it has a place to return to.
HandlerInv ==
    /\ NoSignal => back = "none" /\ main \notin {"handler", "end", "ended"}
    /\ NoSignal /\ main \in {"ota", "start", "watch"} => thread = "none"
    /\ main = "handler" => back # "none"

Noticed == event \/ sem > 0 \/ thread \in {"again", "copy"}

\* What NoLostChange says of committed changes holds of the pages of a
\* transaction already, and nothing is noticed before the watch is in place.
NoticeInv ==
    NoSignal =>
        /\ main \in {"ota", "start"} => src = missed /\ writer # "written"
        /\ writer = "written" /\ ~gaveUp /\ ~unopened => Noticed
        /\ dest # src /\ src # missed /\ ~gaveUp /\ ~unopened => Noticed

\* A copy that ends after a signal that came before it holds the changes made
\* before the signal; backup_done says so, and the program ends on it.
Early == sigAt \notin {"done", "copied", "check"}
ExitInv ==
    ~NoSignal /\ Early /\ ~unopened =>
        (thread = "copied" \/ backup_done \/ main \in {"end", "ended"} => dest >= sigSrc)

----------------------------------------------------------------------------
\* TypeOK in three parts: the numbers, the flags, and the places in the code.
Numbers ==
    /\ src \in 0..MaxVersion /\ dest \in 0..src /\ missed \in 0..src /\ sigSrc \in 0..src
    /\ writer # "idle" => src < MaxVersion
    /\ sem \in Nat /\ tries \in 0..(MaxTries - 1)

Flags ==
    /\ event \in BOOLEAN /\ late \in BOOLEAN
    /\ gaveUp \in BOOLEAN /\ unopened \in BOOLEAN
    /\ backup_done \in BOOLEAN /\ endapp_flag \in BOOLEAN

Controls ==
    /\ writer \in {"idle", "locked", "quiet", "written"}
    /\ main \in {"ota", "start", "watch", "epoll", "event", "handler", "end", "ended"}
    /\ back \in {"none", "start", "watch", "epoll", "event"}
    /\ thread \in Places /\ sigAt \in Places \cup {"done", "unsent"}

\* The three parts give the type invariant.
LEMMA TypeParts == Numbers /\ Flags /\ Controls => TypeOK
  BY Zenon DEF TypeOK, Numbers, Flags, Controls

\* No step takes a number out of its range.
LEMMA NumbersStep == Numbers /\ [Next]_vars => Numbers'
PROOF
<1> USE MonitorAssumption DEF Numbers, writerVars, threadVars, ghosts
<1> SUFFICES ASSUME Numbers, [Next]_vars PROVE Numbers'
  OBVIOUS
  <1>1. CASE Lock
    BY <1>1 DEF Lock
  <1>2. CASE Write
    BY <1>2 DEF Write
  <1>3. CASE Commit
    BY <1>3 DEF Commit
  <1>4. CASE Ota
    BY <1>4 DEF Ota
  <1>5. CASE Watch
    BY <1>5 DEF Watch
  <1>6. CASE CreateThread
    BY <1>6 DEF CreateThread
  <1>7. CASE EpollReturns
    BY <1>7 DEF EpollReturns
  <1>8. CASE ReadEvent
    BY <1>8 DEF ReadEvent
  <1>9. CASE Signal
    BY <1>9 DEF Signal
  <1>10. CASE HandlerReturns
    BY <1>10 DEF HandlerReturns
  <1>11. CASE End
    BY <1>11 DEF End
  <1>12. CASE Wait
    BY <1>12 DEF Wait
  <1>13. CASE SemWait
    BY <1>13 DEF SemWait
  <1>14. CASE Again
    BY <1>14 DEF Again
  <1>15. CASE Copy
    BY <1>15 DEF Copy
  <1>16. CASE CopyFails
    BY <1>16 DEF CopyFails
  <1>17. CASE Copied
    BY <1>17 DEF Copied
  <1>18. CASE Check
    BY <1>18 DEF Check
  <1>19. CASE CopyUnopened
    BY <1>19 DEF CopyUnopened
  <1>20. CASE UNCHANGED vars
    BY <1>20 DEF vars
  <1> QED
    BY <1>1, <1>2, <1>3, <1>4, <1>5, <1>6, <1>7, <1>8, <1>9, <1>10, <1>11, <1>12, <1>13, <1>14, <1>15, <1>16, <1>17, <1>18, <1>19, <1>20
    DEF Next, Writer, MainStep, ThreadStep

\* The flags stay Boolean.
LEMMA FlagsStep == Flags /\ [Next]_vars => Flags'
PROOF
<1> USE DEF Flags, writerVars, threadVars, ghosts
<1> SUFFICES ASSUME Flags, [Next]_vars PROVE Flags'
  OBVIOUS
  <1>1. CASE Lock
    BY <1>1 DEF Lock
  <1>2. CASE Write
    BY <1>2 DEF Write
  <1>3. CASE Commit
    BY <1>3 DEF Commit
  <1>4. CASE Ota
    BY <1>4 DEF Ota
  <1>5. CASE Watch
    BY <1>5 DEF Watch
  <1>6. CASE CreateThread
    BY <1>6 DEF CreateThread
  <1>7. CASE EpollReturns
    BY <1>7 DEF EpollReturns
  <1>8. CASE ReadEvent
    BY <1>8 DEF ReadEvent
  <1>9. CASE Signal
    BY <1>9 DEF Signal
  <1>10. CASE HandlerReturns
    BY <1>10 DEF HandlerReturns
  <1>11. CASE End
    BY <1>11 DEF End
  <1>12. CASE Wait
    BY <1>12 DEF Wait
  <1>13. CASE SemWait
    BY <1>13 DEF SemWait
  <1>14. CASE Again
    BY <1>14 DEF Again
  <1>15. CASE Copy
    BY <1>15 DEF Copy
  <1>16. CASE CopyFails
    BY <1>16 DEF CopyFails
  <1>17. CASE Copied
    BY <1>17 DEF Copied
  <1>18. CASE Check
    BY <1>18 DEF Check
  <1>19. CASE CopyUnopened
    BY <1>19 DEF CopyUnopened
  <1>20. CASE UNCHANGED vars
    BY <1>20 DEF vars
  <1> QED
    BY <1>1, <1>2, <1>3, <1>4, <1>5, <1>6, <1>7, <1>8, <1>9, <1>10, <1>11, <1>12, <1>13, <1>14, <1>15, <1>16, <1>17, <1>18, <1>19, <1>20
    DEF Next, Writer, MainStep, ThreadStep

\* Every step leaves the threads at places of the code, and HandlerInv true.
LEMMA ControlsStep == Controls /\ HandlerInv /\ [Next]_vars => (Controls /\ HandlerInv)'
PROOF
<1> USE DEF Controls, HandlerInv, NoSignal, Places, Running, writerVars, threadVars, ghosts
<1> SUFFICES ASSUME Controls, HandlerInv, [Next]_vars PROVE (Controls /\ HandlerInv)'
  OBVIOUS
  <1>1. CASE Lock
    BY <1>1 DEF Lock
  <1>2. CASE Write
    BY <1>2 DEF Write
  <1>3. CASE Commit
    BY <1>3 DEF Commit
  <1>4. CASE Ota
    BY <1>4 DEF Ota
  <1>5. CASE Watch
    BY <1>5 DEF Watch
  <1>6. CASE CreateThread
    BY <1>6 DEF CreateThread
  <1>7. CASE EpollReturns
    BY <1>7 DEF EpollReturns
  <1>8. CASE ReadEvent
    BY <1>8 DEF ReadEvent
  <1>9. CASE Signal
    BY <1>9 DEF Signal
  <1>10. CASE HandlerReturns
    BY <1>10 DEF HandlerReturns
  <1>11. CASE End
    BY <1>11 DEF End
  <1>12. CASE Wait
    BY <1>12 DEF Wait
  <1>13. CASE SemWait
    BY <1>13 DEF SemWait
  <1>14. CASE Again
    BY <1>14 DEF Again
  <1>15. CASE Copy
    BY <1>15 DEF Copy
  <1>16. CASE CopyFails
    BY <1>16 DEF CopyFails
  <1>17. CASE Copied
    BY <1>17 DEF Copied
  <1>18. CASE Check
    BY <1>18 DEF Check
  <1>19. CASE CopyUnopened
    BY <1>19 DEF CopyUnopened
  <1>20. CASE UNCHANGED vars
    BY <1>20 DEF vars
  <1> QED
    BY <1>1, <1>2, <1>3, <1>4, <1>5, <1>6, <1>7, <1>8, <1>9, <1>10, <1>11, <1>12, <1>13, <1>14, <1>15, <1>16, <1>17, <1>18, <1>19, <1>20
    DEF Next, Writer, MainStep, ThreadStep

\* The types are right in every reachable state; the handler returns somewhere.
THEOREM TypeCorrect == Spec => [](TypeOK /\ HandlerInv)
PROOF
<1>1. Init => Numbers
  BY MonitorAssumption DEF Init, Numbers
<1>2. Init => Flags
  BY DEF Init, Flags
<1>3. Init => Controls /\ HandlerInv
  BY DEF Init, Controls, HandlerInv, NoSignal, Places
<1> QED
  BY <1>1, <1>2, <1>3, TypeParts, NumbersStep, FlagsStep, ControlsStep, PTL DEF Spec

\* A change noticed by the watch is never forgotten before a copy was tried.
THEOREM NoLostChangeCorrect == Spec => []NoLostChange
PROOF
<1> USE MonitorAssumption DEF TypeOK, HandlerInv, Places, NoSignal, NoticeInv, Noticed,
        Watching, writerVars, threadVars, ghosts
<1>1. Init => NoticeInv
  BY DEF Init
<1>2. TypeOK /\ HandlerInv /\ NoticeInv /\ [Next]_vars => NoticeInv'
  <2> SUFFICES ASSUME TypeOK, HandlerInv, NoticeInv, [Next]_vars PROVE NoticeInv'
    OBVIOUS
  <2>1. CASE Lock
    BY <2>1 DEF Lock
  <2>2. CASE Write
    BY <2>2 DEF Write
  <2>3. CASE Commit
    BY <2>3 DEF Commit
  <2>4. CASE Ota
    BY <2>4 DEF Ota
  <2>5. CASE Watch
    BY <2>5 DEF Watch
  <2>6. CASE CreateThread
    BY <2>6 DEF CreateThread
  <2>7. CASE EpollReturns
    BY <2>7 DEF EpollReturns
  <2>8. CASE ReadEvent
    BY <2>8 DEF ReadEvent
  <2>9. CASE Signal
    BY <2>9 DEF Signal
  <2>10. CASE HandlerReturns
    BY <2>10 DEF HandlerReturns
  <2>11. CASE End
    BY <2>11 DEF End
  <2>12. CASE Wait
    <3>1. /\ thread \notin {"again", "copy"} /\ thread' \notin {"again", "copy"}
          /\ UNCHANGED <<src, dest, writer, event, sem, main, sigAt, missed, gaveUp, unopened>>
      BY <2>12 DEF Wait, Running
    <3> QED
      BY <3>1
  <2>13. CASE SemWait
    BY <2>13 DEF SemWait
  <2>14. CASE Again
    BY <2>14 DEF Again
  <2>15. CASE Copy
    BY <2>15 DEF Copy
  <2>16. CASE CopyFails
    BY <2>16 DEF CopyFails
  <2>17. CASE Copied
    <3>1. /\ thread \notin {"again", "copy"} /\ thread' \notin {"again", "copy"}
          /\ UNCHANGED <<src, dest, writer, event, sem, main, sigAt, missed, gaveUp, unopened>>
      BY <2>17 DEF Copied, Running
    <3> QED
      BY <3>1
  <2>18. CASE Check
    <3>1. /\ thread \notin {"again", "copy"}
          /\ UNCHANGED <<src, dest, writer, event, sem, main, sigAt, missed, gaveUp, unopened>>
      BY <2>18 DEF Check, Running
    <3> QED
      BY <3>1
  <2>19. CASE CopyUnopened
    BY <2>19 DEF CopyUnopened
  <2>20. CASE UNCHANGED vars
    BY <2>20 DEF vars
  <2> QED
    BY <2>1, <2>2, <2>3, <2>4, <2>5, <2>6, <2>7, <2>8, <2>9, <2>10, <2>11, <2>12, <2>13, <2>14, <2>15, <2>16, <2>17, <2>18, <2>19, <2>20
    DEF Next, Writer, MainStep, ThreadStep
<1>3. NoticeInv => NoLostChange
  BY DEF NoLostChange
<1> QED
  BY <1>1, <1>2, <1>3, TypeCorrect, PTL DEF Spec

\* What was committed before a signal is saved when the program ends on it.
THEOREM SavedAtExitCorrect == Spec => []SavedAtExit
PROOF
<1> USE MonitorAssumption DEF TypeOK, HandlerInv, Places, NoSignal, ExitInv, Early,
        writerVars, threadVars, ghosts
<1>1. Init => ExitInv
  BY DEF Init
<1>2. TypeOK /\ HandlerInv /\ ExitInv /\ [Next]_vars => ExitInv'
  <2> SUFFICES ASSUME TypeOK, HandlerInv, ExitInv, [Next]_vars PROVE ExitInv'
    OBVIOUS
  <2>1. CASE Lock
    BY <2>1 DEF Lock
  <2>2. CASE Write
    BY <2>2 DEF Write
  <2>3. CASE Commit
    BY <2>3 DEF Commit
  <2>4. CASE Ota
    BY <2>4 DEF Ota
  <2>5. CASE Watch
    BY <2>5 DEF Watch
  <2>6. CASE CreateThread
    BY <2>6 DEF CreateThread
  <2>7. CASE EpollReturns
    BY <2>7 DEF EpollReturns
  <2>8. CASE ReadEvent
    BY <2>8 DEF ReadEvent
  <2>9. CASE Signal
    BY <2>9 DEF Signal
  <2>10. CASE HandlerReturns
    BY <2>10 DEF HandlerReturns
  <2>11. CASE End
    BY <2>11 DEF End
  <2>12. CASE Wait
    BY <2>12 DEF Wait
  <2>13. CASE SemWait
    BY <2>13 DEF SemWait
  <2>14. CASE Again
    BY <2>14 DEF Again
  <2>15. CASE Copy
    BY <2>15 DEF Copy
  <2>16. CASE CopyFails
    BY <2>16 DEF CopyFails
  <2>17. CASE Copied
    <3>1. /\ thread = "copied"
          /\ UNCHANGED <<dest, sigSrc, sigAt, unopened>>
      BY <2>17 DEF Copied, Running
    <3> QED
      BY <3>1
  <2>18. CASE Check
    BY <2>18 DEF Check
  <2>19. CASE CopyUnopened
    BY <2>19 DEF CopyUnopened
  <2>20. CASE UNCHANGED vars
    BY <2>20 DEF vars
  <2> QED
    BY <2>1, <2>2, <2>3, <2>4, <2>5, <2>6, <2>7, <2>8, <2>9, <2>10, <2>11, <2>12, <2>13, <2>14, <2>15, <2>16, <2>17, <2>18, <2>19, <2>20
    DEF Next, Writer, MainStep, ThreadStep
<1>3. HandlerInv /\ ExitInv => SavedAtExit
  BY DEF SavedAtExit
<1> QED
  BY <1>1, <1>2, <1>3, TypeCorrect, PTL DEF Spec

=============================================================================
