--------------------------- MODULE ClientNetProofs --------------------------
(***************************************************************************)
(* Theorems about ClientNet, for any number of connections and any length  *)
(* of the queue.                                                           *)
(***************************************************************************)
EXTENDS ClientNet, TLAPS

(* The inductive invariant: the thread object is joined exactly at the     *)
(* points of the connection thread where no connection is established, so  *)
(* an unjoined sender always goes with the present connection.  Both       *)
(* threads may be joining only after close() has cleared is_running.       *)
JoinDiscipline ==
  /\ NetTypeOK
  /\ is_running <=> main \in {"loop", "push"}
  /\ main = "push" => queued < MaxBuffer
  /\ main = "start" => ct = "off"
  /\ main = "done" => ct = "exit"
  /\ ~ joinable => st \in {"off", "ended"}
  /\ ct \in {"off", "check", "connect", "on_open", "spawn", "after", "exit"} => ~ joinable
  /\ ct \in {"on_open", "spawn"} => state \in {"open", "closing"}
  /\ ct = "run" => state \in {"connecting", "open", "closing"}
  /\ ct = "run" /\ state = "connecting" => ~ joinable
  /\ ct = "on_close_joining" /\ ~ joinable => ~ is_running
  /\ joinable => owner = con
  /\ crashed => ~ is_running

(* No step of the three threads breaks the discipline of joins.            *)
LEMMA JoinDisciplineStep ==
  ASSUME JoinDiscipline, [NetNext]_netVars
  PROVE  JoinDiscipline'
<1> USE NetAssumption DEF JoinDiscipline, NetTypeOK
<1>1. CASE UNCHANGED netVars
  BY <1>1 DEF netVars
<1>2. CASE async_connect_and_run
  BY <1>2 DEF async_connect_and_run, Main
<1>3. CASE send
  BY <1>3 DEF send, Main
<1>4. CASE push
  BY <1>4 DEF push, Main, notify_all
<1>5. CASE close
  BY <1>5, ZenonT(40) DEF close, Main
<1>6. CASE close_notify
  BY <1>6 DEF close_notify, Main, notify_all
<1>7. CASE close_connection
  BY <1>7 DEF close_connection, Main
<1>8. CASE close_join_sender
  BY <1>8 DEF close_join_sender, Main
<1>9. CASE close_joining
  BY <1>9 DEF close_joining, Main
<1>10. CASE close_join_connection
  BY <1>10 DEF close_join_connection, Main
<1>11. CASE join_fails
  BY <1>11 DEF join_fails, JoinTwice
<1>12. CASE check_running
  BY <1>12 DEF check_running, Ct
<1>13. CASE connect
  BY <1>13 DEF connect, Ct
<1>14. CASE after_run
  BY <1>14 DEF after_run, Ct
<1>15. CASE Handshake
  BY <1>15 DEF Handshake, Ct
<1>16. CASE on_fail
  BY <1>16 DEF on_fail, Ct, notify_all
<1>17. CASE RemoteClose
  BY <1>17 DEF RemoteClose
<1>18. CASE Terminate
  BY <1>18 DEF Terminate, Ct
<1>19. CASE on_open
  BY <1>19 DEF on_open, Ct, notify_all
<1>20. CASE spawn
  BY <1>20 DEF spawn, Ct
<1>21. CASE on_close
  BY <1>21, ZenonT(40) DEF on_close, Ct
<1>22. CASE on_close_notify
  BY <1>22 DEF on_close_notify, Ct, notify_all
<1>23. CASE on_close_join
  BY <1>23 DEF on_close_join, Ct
<1>24. CASE on_close_joining
  BY <1>24 DEF on_close_joining, Ct
<1>25. CASE check_flags
  BY <1>25 DEF check_flags, St
<1>26. CASE check_state
  BY <1>26 DEF check_state, St
<1>27. CASE lock
  BY <1>27 DEF lock
<1>28. CASE wait
  BY <1>28 DEF wait, St
<1>29. CASE block
  BY <1>29 DEF block, St
<1>30. CASE spurious
  BY <1>30 DEF spurious, St
<1>31. CASE drain
  BY <1>31 DEF drain, St
<1> QED
  BY <1>1, <1>2, <1>3, <1>4, <1>5, <1>6, <1>7, <1>8, <1>9, <1>10, <1>11,
     <1>12, <1>13, <1>14, <1>15, <1>16, <1>17, <1>18, <1>19, <1>20, <1>21,
     <1>22, <1>23, <1>24, <1>25, <1>26, <1>27, <1>28, <1>29, <1>30, <1>31
  DEF NetNext, MainStep, Closing, Loop, Handlers, Library, Sender

(* The discipline of joins holds in every behaviour of the client.         *)
LEMMA JoinDisciplineHolds == NetSpec => []JoinDiscipline
<1>1. NetInit => JoinDiscipline
  <2> SUFFICES ASSUME NetInit PROVE JoinDiscipline
    OBVIOUS
  <2>1. 0 \in 0..MaxBuffer /\ 0 \in 0..MaxOpen /\ 0 \in 0..(MaxOpen + 1)
    BY NetAssumption
  <2>2. is_running \in BOOLEAN /\ is_open \in BOOLEAN /\ joinable \in BOOLEAN
        /\ crashed \in BOOLEAN
    BY DEF NetInit
  <2>3. NetTypeOK
    BY <2>1, <2>2, Zenon DEF NetInit, NetTypeOK
  <2> QED
    BY <2>3, Zenon DEF NetInit, JoinDiscipline
<1>2. JoinDiscipline /\ [NetNext]_netVars => JoinDiscipline'
  BY JoinDisciplineStep
<1> QED
  BY <1>1, <1>2, PTL DEF NetSpec

(* Program counters, flags and counters keep their types; the queue never  *)
(* holds a negative number of messages.                                    *)
THEOREM NetTypeCorrect == NetSpec => []NetTypeOK
<1>1. JoinDiscipline => NetTypeOK
  BY DEF JoinDiscipline
<1> QED
  BY <1>1, JoinDisciplineHolds, PTL

(* However often the client reconnects, connection_ptr is never replaced   *)
(* under a running sender.                                                 *)
THEOREM SenderKeepsItsConnection == NetSpec => []SenderOwnsConnection
<1>1. JoinDiscipline => SenderOwnsConnection
  BY DEF JoinDiscipline, SenderOwnsConnection
<1> QED
  BY <1>1, JoinDisciplineHolds, PTL

(* While the window is open no thread terminates the process.              *)
THEOREM NoCrashWhileRunning == NetSpec => []RunsUntilClose
<1>1. JoinDiscipline => RunsUntilClose
  BY DEF JoinDiscipline, RunsUntilClose
<1> QED
  BY <1>1, JoinDisciplineHolds, PTL

(* When close() returns every thread has ended and has been joined.        *)
THEOREM CloseEndsClean == NetSpec => []EndsClean
<1>1. JoinDiscipline => EndsClean
  BY DEF JoinDiscipline, EndsClean
<1> QED
  BY <1>1, JoinDisciplineHolds, PTL

-----------------------------------------------------------------------------
(* Sleeping and waiting.  The mutex is held exactly where the sender looks *)
(* at the queue, which is what makes its decision to sleep stay true; and  *)
(* whoever waits for a sender waits for one that was started.              *)

WaitDiscipline ==
  /\ mtx = "sender" <=> st \in {"wait", "block", "drain"}
  /\ SleepsOnEmptyQueue
  /\ joinable \/ main = "close_joining" \/ ct = "on_close_joining" => st # "off"
  /\ ct = "off" => main = "start"

(* No step of the three threads breaks it.                                 *)
LEMMA WaitDisciplineStep ==
  ASSUME JoinDiscipline, WaitDiscipline, [NetNext]_netVars
  PROVE  WaitDiscipline'
<1> USE NetAssumption DEF JoinDiscipline, NetTypeOK, WaitDiscipline, SleepsOnEmptyQueue
<1>1. CASE UNCHANGED netVars
  BY <1>1 DEF netVars
<1>2. CASE async_connect_and_run
  BY <1>2 DEF async_connect_and_run, Main
<1>3. CASE send
  BY <1>3 DEF send, Main
<1>4. CASE push
  BY <1>4 DEF push, Main, notify_all
<1>5. CASE close
  BY <1>5 DEF close, Main
<1>6. CASE close_notify
  BY <1>6 DEF close_notify, Main, notify_all
<1>7. CASE close_connection
  BY <1>7 DEF close_connection, Main
<1>8. CASE close_join_sender
  BY <1>8 DEF close_join_sender, Main
<1>9. CASE close_joining
  BY <1>9 DEF close_joining, Main
<1>10. CASE close_join_connection
  BY <1>10 DEF close_join_connection, Main
<1>11. CASE join_fails
  BY <1>11 DEF join_fails, JoinTwice
<1>12. CASE check_running
  BY <1>12 DEF check_running, Ct
<1>13. CASE connect
  BY <1>13 DEF connect, Ct
<1>14. CASE after_run
  BY <1>14 DEF after_run, Ct
<1>15. CASE Handshake
  BY <1>15 DEF Handshake, Ct
<1>16. CASE on_fail
  BY <1>16 DEF on_fail, Ct, notify_all
<1>17. CASE RemoteClose
  BY <1>17 DEF RemoteClose
<1>18. CASE Terminate
  BY <1>18 DEF Terminate, Ct
<1>19. CASE on_open
  BY <1>19 DEF on_open, Ct, notify_all
<1>20. CASE spawn
  BY <1>20 DEF spawn, Ct
<1>21. CASE on_close
  BY <1>21 DEF on_close, Ct
<1>22. CASE on_close_notify
  BY <1>22 DEF on_close_notify, Ct, notify_all
<1>23. CASE on_close_join
  BY <1>23 DEF on_close_join, Ct
<1>24. CASE on_close_joining
  BY <1>24 DEF on_close_joining, Ct
<1>25. CASE check_flags
  BY <1>25 DEF check_flags, St
<1>26. CASE check_state
  BY <1>26 DEF check_state, St
<1>27. CASE lock
  BY <1>27 DEF lock
<1>28. CASE wait
  BY <1>28 DEF wait, St
<1>29. CASE block
  BY <1>29 DEF block, St
<1>30. CASE spurious
  BY <1>30 DEF spurious, St
<1>31. CASE drain
  BY <1>31 DEF drain, St
<1> QED
  BY <1>1, <1>2, <1>3, <1>4, <1>5, <1>6, <1>7, <1>8, <1>9, <1>10, <1>11,
     <1>12, <1>13, <1>14, <1>15, <1>16, <1>17, <1>18, <1>19, <1>20, <1>21,
     <1>22, <1>23, <1>24, <1>25, <1>26, <1>27, <1>28, <1>29, <1>30, <1>31
  DEF NetNext, MainStep, Closing, Loop, Handlers, Library, Sender

(* Joins and the mutex are in order in every behaviour of the client.      *)
LEMMA WaitDisciplineHolds == NetSpec => [](JoinDiscipline /\ WaitDiscipline)
<1>1. NetInit => WaitDiscipline
  BY DEF NetInit, WaitDiscipline, SleepsOnEmptyQueue
<1>2. JoinDiscipline /\ WaitDiscipline /\ [NetNext]_netVars => WaitDiscipline'
  BY WaitDisciplineStep
<1> QED
  BY <1>1, <1>2, JoinDisciplineHolds, PTL DEF NetSpec

(* A sender that sleeps, or has decided to, leaves no message behind,      *)
(* whenever Client::send comes in between.                                 *)
THEOREM SleepersMissNoMessage == NetSpec => []SleepsOnEmptyQueue
<1>1. WaitDiscipline => SleepsOnEmptyQueue
  BY DEF WaitDiscipline
<1> QED
  BY <1>1, WaitDisciplineHolds, PTL

(* The client hangs in two ways only, for any number of reconnections: on  *)
(* a connection that opened behind the back of close(), or on a sender     *)
(* that missed the notifications of the flags.                             *)
THEOREM HangsAsKnown == NetSpec => []NoOtherHang
<1>1. JoinDiscipline /\ WaitDiscipline => NoOtherHang
  <2> SUFFICES ASSUME JoinDiscipline, WaitDiscipline,
                      MainWaits, ConnectionWaits, SenderWaits
               PROVE  HeldByServer \/ MissedWakeUp
    BY DEF NoOtherHang
  <2>1. st \in {"off", "ended", "asleep"}
    BY DEF SenderWaits, WaitDiscipline, JoinDiscipline, NetTypeOK
  <2>2. main \in {"close_joining", "close_join_connection"} /\ ct # "off"
    BY <2>1 DEF MainWaits, WaitDiscipline, JoinDiscipline, NetTypeOK
  <2>3. CASE ct = "exit"
    BY <2>1, <2>2, <2>3 DEF MainWaits, WaitDiscipline, JoinDiscipline
  <2>4. CASE ct = "run" /\ state = "open"
    BY <2>2, <2>4 DEF HeldByServer
  <2>5. CASE ct = "on_close_joining" /\ st # "ended"
    BY <2>1, <2>5 DEF MissedWakeUp, WaitDiscipline
  <2> QED
    BY <2>2, <2>3, <2>4, <2>5 DEF ConnectionWaits
<1> QED
  BY <1>1, WaitDisciplineHolds, PTL

=============================================================================
