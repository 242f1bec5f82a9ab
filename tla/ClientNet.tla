----------------------------- MODULE ClientNet ------------------------------
(***************************************************************************)
(* The threads of one game client, client/src/client.cpp:                  *)
(*                                                                         *)
(*   main   App::loop calling Client::send, then ~App calling close();     *)
(*   ct     async_connect_and_run_handler, which also runs the handlers    *)
(*          on_open, on_fail and on_close from inside client.run();        *)
(*   st     sending_thread_handler, started by on_open.                    *)
(*                                                                         *)
(* They share the flags is_running and is_open (relaxed atomics), a queue  *)
(* under mtx with the condition variable cv, and the connection and thread *)
(* pointers, which nothing protects.  Each thread has a program counter    *)
(* and an action is one access to what is shared.                          *)
(*                                                                         *)
(* WebSocket++ is external: the states of a connection and the handler     *)
(* that goes with each change are taken from the way client.cpp uses them. *)
(***************************************************************************)
EXTENDS Integers

CONSTANTS
  MaxOpen,    \* bound on the connections the server accepts
  MaxBuffer   \* bound on the queue

ASSUME NetAssumption == MaxOpen \in Nat /\ MaxBuffer \in Nat \ {0}

VARIABLES
  main, ct, st,  \* program counters
  is_running,
  is_open,
  joinable,      \* sending_thread points to a thread nobody has joined
  mtx,           \* who holds the mutex
  queued,        \* length of buffer
  state,         \* get_state() of connection_ptr; "null" when there is none
  con,           \* number of the connection connection_ptr points to
  owner,         \* the connection for which st was started
  opened,        \* connections accepted so far
  crashed        \* the process was terminated

netVars == <<main, ct, st, is_running, is_open, joinable, mtx, queued, state,
             con, owner, opened, crashed>>

NetTypeOK ==
  /\ main \in {"start", "loop", "push", "close_notify", "close_connection",
               "close_join_sender", "close_joining", "close_join_connection", "done"}
  /\ ct \in {"off", "check", "connect", "run", "on_open", "spawn", "on_close",
             "on_close_notify", "on_close_join", "on_close_joining", "after", "exit"}
  /\ st \in {"off", "check", "state", "lock", "wait", "block", "asleep", "relock",
             "drain", "ended"}
  /\ is_running \in BOOLEAN /\ is_open \in BOOLEAN /\ joinable \in BOOLEAN
  /\ mtx \in {"free", "sender"}
  /\ queued \in 0..MaxBuffer
  /\ state \in {"null", "connecting", "open", "closing", "closed"}
  /\ con \in 0..(MaxOpen + 1)
  /\ owner \in 0..(MaxOpen + 1)
  /\ opened \in 0..MaxOpen
  /\ crashed \in BOOLEAN

NetInit ==
  /\ main = "start" /\ ct = "off" /\ st = "off"
  /\ is_running = FALSE /\ is_open = FALSE /\ joinable = FALSE
  /\ mtx = "free"
  /\ queued = 0
  /\ state = "null" /\ con = 0 /\ owner = 0 /\ opened = 0
  /\ crashed = FALSE

(* cv.notify_all(): a sender that sleeps goes for the mutex again.         *)
notify_all == IF st = "asleep" THEN "relock" ELSE st

(* Control of one thread passes from one point to the next.                *)
Main(from, to) == ~ crashed /\ main = from /\ main' = to
Ct(from, to) == ~ crashed /\ ct = from /\ ct' = to
St(from, to) == ~ crashed /\ st = from /\ st' = to

-----------------------------------------------------------------------------
(* The main thread.                                                        *)

async_connect_and_run ==
  /\ Main("start", "loop")
  /\ is_running' = TRUE
  /\ ct' = "check"
  /\ UNCHANGED <<st, is_open, joinable, mtx, queued, state, con, owner, opened, crashed>>

(* Client::send reads is_open without the mutex ...                        *)
send ==
  /\ Main("loop", "push")
  /\ is_open
  /\ queued < MaxBuffer
  /\ UNCHANGED <<ct, st, is_running, is_open, joinable, mtx, queued, state, con,
                 owner, opened, crashed>>

(* A slip to check the properties against: nobody is told of the message.  *)
mut_push_is_silent ==
  /\ Main("push", "loop")
  /\ mtx = "free"
  /\ queued' = queued + 1
  /\ UNCHANGED <<ct, st, is_running, is_open, joinable, mtx, state, con, owner,
                 opened, crashed>>

(* A slip: the message is pushed without the mutex.                        *)
mut_push_unlocked ==
  /\ Main("push", "loop")
  /\ queued' = queued + 1
  /\ st' = notify_all
  /\ UNCHANGED <<ct, is_running, is_open, joinable, mtx, state, con, owner, opened,
                 crashed>>

(* ... and pushes and notifies with it.                                    *)
push ==
  /\ Main("push", "loop")
  /\ mtx = "free"
  /\ queued' = queued + 1
  /\ st' = notify_all
  /\ UNCHANGED <<ct, is_running, is_open, joinable, mtx, state, con, owner, opened,
                 crashed>>

(* A slip: close() forgets to clear is_running.                            *)
mut_close_keeps_running ==
  /\ Main("loop", "close_notify")
  /\ UNCHANGED <<ct, st, is_running, is_open, joinable, mtx, queued, state, con,
                 owner, opened, crashed>>

(* The window is closed: ~App calls close().                               *)
close ==
  /\ Main("loop", "close_notify")
  /\ is_running' = FALSE
  /\ UNCHANGED <<ct, st, is_open, joinable, mtx, queued, state, con, owner, opened,
                 crashed>>

close_notify ==
  /\ Main("close_notify", "close_connection")
  /\ st' = notify_all
  /\ UNCHANGED <<ct, is_running, is_open, joinable, mtx, queued, state, con, owner,
                 opened, crashed>>

(* close() looks at the connection; there may be none yet.  client.close() *)
(* only has an effect on a connection that is open.                        *)
close_connection ==
  /\ Main("close_connection", "close_join_sender")
  /\ crashed' = (state = "null")
  /\ state' = IF state = "open" THEN "closing" ELSE state
  /\ UNCHANGED <<ct, st, is_running, is_open, joinable, mtx, queued, con, owner, opened>>

close_join_sender ==
  /\ Main("close_join_sender",
          IF joinable THEN "close_joining" ELSE "close_join_connection")
  /\ UNCHANGED <<ct, st, is_running, is_open, joinable, mtx, queued, state, con,
                 owner, opened, crashed>>

(* Two threads have found the sender joinable and call join(): each call   *)
(* returns, or fails with an exception that nobody catches.                *)
JoinTwice ==
  \/ main = "close_joining" /\ (ct = "on_close_joining" \/ ~ joinable)
  \/ ct = "on_close_joining" /\ ~ joinable

close_joining ==
  /\ Main("close_joining", "close_join_connection")
  /\ st = "ended"
  /\ joinable' = FALSE
  /\ UNCHANGED <<ct, st, is_running, is_open, mtx, queued, state, con, owner, opened,
                 crashed>>

close_join_connection ==
  /\ Main("close_join_connection", "done")
  /\ ct = "exit"
  /\ UNCHANGED <<ct, st, is_running, is_open, joinable, mtx, queued, state, con,
                 owner, opened, crashed>>

join_fails ==
  /\ ~ crashed
  /\ JoinTwice
  /\ crashed' = TRUE
  /\ UNCHANGED <<main, ct, st, is_running, is_open, joinable, mtx, queued, state,
                 con, owner, opened>>

-----------------------------------------------------------------------------
(* The connection thread: the loop ...                                     *)

check_running ==
  /\ Ct("check", IF is_running THEN "connect" ELSE "exit")
  /\ UNCHANGED <<main, st, is_running, is_open, joinable, mtx, queued, state, con,
                 owner, opened, crashed>>

connect ==
  /\ Ct("connect", "run")
  /\ con' = opened + 1
  /\ state' = "connecting"
  /\ UNCHANGED <<main, st, is_running, is_open, joinable, mtx, queued, owner, opened,
                 crashed>>

after_run ==
  /\ Ct("after", IF is_running THEN "check" ELSE "exit")
  /\ UNCHANGED <<main, st, is_running, is_open, joinable, mtx, queued, state, con,
                 owner, opened, crashed>>

(* ... the events inside client.run() ...                                  *)
Handshake ==
  /\ Ct("run", "on_open")
  /\ state = "connecting"
  /\ opened < MaxOpen
  /\ opened' = opened + 1
  /\ state' = "open"
  /\ UNCHANGED <<main, st, is_running, is_open, joinable, mtx, queued, con, owner, crashed>>

(* on_fail only sets connection_failed, which nobody reads.                *)
on_fail ==
  /\ Ct("run", "after")
  /\ state = "connecting"
  /\ state' = "closed"
  /\ st' = notify_all
  /\ UNCHANGED <<main, is_running, is_open, joinable, mtx, queued, con, owner, opened,
                 crashed>>

(* The server's closing frame.                                             *)
RemoteClose ==
  /\ ~ crashed
  /\ ct = "run"
  /\ state = "open"
  /\ state' = "closing"
  /\ UNCHANGED <<main, ct, st, is_running, is_open, joinable, mtx, queued, con, owner,
                 opened, crashed>>

(* The connection is over: its state changes first, on_close runs later.   *)
Terminate ==
  /\ Ct("run", "on_close")
  /\ state \in {"open", "closing"}
  /\ state' = "closed"
  /\ UNCHANGED <<main, st, is_running, is_open, joinable, mtx, queued, con, owner,
                 opened, crashed>>

(* ... and the handlers.                                                   *)
on_open ==
  /\ Ct("on_open", "spawn")
  /\ is_open' = TRUE
  /\ st' = notify_all
  /\ UNCHANGED <<main, is_running, joinable, mtx, queued, state, con, owner, opened,
                 crashed>>

(* Assigning sending_thread destroys the thread it pointed to, which       *)
(* terminates the process if nobody has joined that one.                   *)
spawn ==
  /\ Ct("spawn", "run")
  /\ crashed' = joinable
  /\ st' = "check"
  /\ joinable' = TRUE
  /\ owner' = con
  /\ UNCHANGED <<main, is_running, is_open, mtx, queued, state, con, opened>>

on_close ==
  /\ Ct("on_close", "on_close_notify")
  /\ is_open' = FALSE
  /\ UNCHANGED <<main, st, is_running, joinable, mtx, queued, state, con, owner,
                 opened, crashed>>

on_close_notify ==
  /\ Ct("on_close_notify", "on_close_join")
  /\ st' = notify_all
  /\ UNCHANGED <<main, is_running, is_open, joinable, mtx, queued, state, con, owner,
                 opened, crashed>>

(* A slip: on_close does not wait for the sender.                          *)
mut_on_close_leaves_sender ==
  /\ Ct("on_close_join", "after")
  /\ UNCHANGED <<main, st, is_running, is_open, joinable, mtx, queued, state, con,
                 owner, opened, crashed>>

on_close_join ==
  /\ Ct("on_close_join", IF joinable THEN "on_close_joining" ELSE "after")
  /\ UNCHANGED <<main, st, is_running, is_open, joinable, mtx, queued, state, con,
                 owner, opened, crashed>>

on_close_joining ==
  /\ Ct("on_close_joining", "after")
  /\ st = "ended"
  /\ joinable' = FALSE
  /\ UNCHANGED <<main, st, is_running, is_open, mtx, queued, state, con, owner,
                 opened, crashed>>

-----------------------------------------------------------------------------
(* The sending thread.                                                     *)

check_flags ==
  /\ St("check", IF is_running /\ is_open THEN "state" ELSE "ended")
  /\ UNCHANGED <<main, ct, is_running, is_open, joinable, mtx, queued, state, con,
                 owner, opened, crashed>>

(* Not open: sleep for 50 ms and start again.                              *)
check_state ==
  /\ St("state", IF state = "open" THEN "lock" ELSE "check")
  /\ UNCHANGED <<main, ct, is_running, is_open, joinable, mtx, queued, state, con,
                 owner, opened, crashed>>

lock ==
  /\ ~ crashed
  /\ st \in {"lock", "relock"}
  /\ mtx = "free"
  /\ st' = "wait"
  /\ mtx' = "sender"
  /\ UNCHANGED <<main, ct, is_running, is_open, joinable, queued, state, con, owner,
                 opened, crashed>>

(* cv.wait evaluates its predicate with the mutex held, but the flags can  *)
(* change without it.                                                      *)
wait ==
  /\ St("wait", IF queued > 0 \/ ~ is_running \/ ~ is_open THEN "drain" ELSE "block")
  /\ UNCHANGED <<main, ct, is_running, is_open, joinable, mtx, queued, state, con,
                 owner, opened, crashed>>

block ==
  /\ St("block", "asleep")
  /\ mtx' = "free"
  /\ UNCHANGED <<main, ct, is_running, is_open, joinable, queued, state, con, owner,
                 opened, crashed>>

(* A condition variable may wake up by itself, and need not.               *)
spurious ==
  /\ St("asleep", "relock")
  /\ UNCHANGED <<main, ct, is_running, is_open, joinable, mtx, queued, state, con,
                 owner, opened, crashed>>

(* A slip: the test for an empty queue comes after the pop.                *)
mut_drain_pops_first ==
  /\ St("drain", IF queued > 1 THEN "drain" ELSE "check")
  /\ queued' = queued - 1
  /\ mtx' = IF queued > 1 THEN mtx ELSE "free"
  /\ UNCHANGED <<main, ct, is_running, is_open, joinable, state, con, owner, opened,
                 crashed>>

(* A slip: the mutex is kept until the next lock.                          *)
mut_drain_keeps_mutex ==
  /\ St("drain", IF queued > 0 THEN "drain" ELSE "check")
  /\ queued' = IF queued > 0 THEN queued - 1 ELSE 0
  /\ UNCHANGED <<main, ct, is_running, is_open, joinable, mtx, state, con, owner,
                 opened, crashed>>

(* One message is sent, or dropped if the connection is not open, and      *)
(* popped; with an empty queue the mutex is released.                      *)
drain ==
  /\ St("drain", IF queued > 0 THEN "drain" ELSE "check")
  /\ queued' = IF queued > 0 THEN queued - 1 ELSE 0
  /\ mtx' = IF queued > 0 THEN mtx ELSE "free"
  /\ UNCHANGED <<main, ct, is_running, is_open, joinable, state, con, owner, opened,
                 crashed>>

-----------------------------------------------------------------------------

Closing == close_notify \/ close_connection \/ close_join_sender \/ close_joining
           \/ close_join_connection

MainStep == async_connect_and_run \/ send \/ push \/ close \/ Closing

Loop == check_running \/ connect \/ after_run

Handlers == on_open \/ spawn \/ on_close \/ on_close_notify \/ on_close_join
            \/ on_close_joining

Library == Handshake \/ on_fail \/ RemoteClose \/ Terminate

Sender == check_flags \/ check_state \/ lock \/ wait \/ block \/ drain

NetNext == MainStep \/ Loop \/ Handlers \/ Library \/ Sender \/ join_fails \/ spurious

NetSpec == NetInit /\ [][NetNext]_netVars

(* The operating system runs every thread that can run.  A handshake ends, *)
(* one way or the other, and so does the closing of a connection (both     *)
(* have timers in the library).  Nothing makes the server close, the user  *)
(* close the window, or a condition variable wake up by itself.            *)
Fairness ==
  /\ WF_netVars(async_connect_and_run \/ push \/ Closing)
  /\ WF_netVars(Loop \/ Handlers)
  /\ WF_netVars(Handshake \/ on_fail)
  /\ WF_netVars(state = "closing" /\ Terminate)
  /\ WF_netVars(Sender)

FairNetSpec == NetSpec /\ Fairness

-----------------------------------------------------------------------------

(* A sender uses the connection it was started for: connection_ptr is not  *)
(* assigned while a sender runs, although nothing but the join in on_close *)
(* prevents it.                                                            *)
SenderOwnsConnection == st \notin {"off", "ended"} => owner = con

(* Nothing terminates the process before close() has been called; in       *)
(* particular on_open never overwrites a thread that was not joined.       *)
RunsUntilClose == crashed => ~ is_running

(* When close() returns no thread is left running or unjoined, so that the *)
(* destructor of Client is safe.                                           *)
EndsClean == main = "done" => ct = "exit" /\ st \in {"off", "ended"} /\ ~ joinable

(* A queued message leaves the queue unless the connection is lost: the    *)
(* push is made and announced under the mutex, so that wake-up is not      *)
(* missed.                                                                 *)
QueueDrains == queued > 0 ~> queued = 0 \/ ~ is_open \/ ~ is_running \/ crashed

(* The connection opened after close() had looked at it, and stays until   *)
(* the server closes it.                                                   *)
HeldByServer ==
  /\ main \in {"close_join_sender", "close_joining", "close_join_connection"}
  /\ ct = "run"
  /\ state = "open"

(* The sender fell asleep after the last notification, that of on_close.   *)
MissedWakeUp == st = "asleep" /\ ct = "on_close_joining"

(* close() returns unless one of the known races kept it from doing so: it *)
(* can only be held by a connection that opened behind its back or by a    *)
(* sender that missed both notifications.                                  *)
ShutdownEnds ==
  main = "close_notify" ~> main = "done" \/ crashed \/ HeldByServer \/ MissedWakeUp

(* Who sleeps has nothing to send.  The sender decides to sleep before it  *)
(* does, and flags change in between; but messages do not, since they are  *)
(* pushed under the mutex.                                                 *)
SleepsOnEmptyQueue == st \in {"block", "asleep"} => queued = 0

(* What each thread waits for: a mutex, a thread to join, the server, a    *)
(* notification.                                                           *)
MainWaits ==
  \/ main = "push" /\ mtx # "free"
  \/ main = "close_joining" /\ st # "ended"
  \/ main = "close_join_connection" /\ ct # "exit"

ConnectionWaits ==
  \/ ct \in {"off", "exit"}
  \/ ct = "run" /\ state = "open"
  \/ ct = "on_close_joining" /\ st # "ended"

SenderWaits ==
  \/ st \in {"off", "ended", "asleep"}
  \/ st \in {"lock", "relock"} /\ mtx # "free"

(* The three threads, which join one another from handlers and take turns  *)
(* with a mutex, do not all wait unless in one of the two known ways.      *)
NoOtherHang ==
  MainWaits /\ ConnectionWaits /\ SenderWaits /\ ~ crashed =>
    HeldByServer \/ MissedWakeUp

(* A client that has lost its connection gets past on_close and connects   *)
(* again.                                                                  *)
Reconnects == ct = "on_close" ~> ct = "check" \/ ~ is_running \/ crashed

=============================================================================
