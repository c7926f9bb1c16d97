------------------------------ MODULE Countdown ------------------------------
(***************************************************************************)
(* What the vocabulary device promises about its session timer, with no   *)
(* tasks, flags or uint8_t arithmetic: a touch starts a session of TOTAL   *)
(* seconds; while it runs, each tick takes exactly one second off; the    *)
(* tick that would reach zero ends the session and rearms the full         *)
(* duration for the next touch.                                            *)
(*                                                                         *)
(* TaskCoord implements it under the mapping running <- s_isStartTimer,   *)
(* left <- the seconds TimerTask's min:sec stand for.                      *)
(***************************************************************************)
EXTENDS Naturals

CONSTANT TOTAL  \* TV_TASK_TIME_MIN:TV_TASK_TIME_SEC in seconds

VARIABLES
  running,  \* a session is counting down
  left      \* seconds the session still has

(* Idle, with the full duration armed. *)
Init == running = FALSE /\ left = TOTAL

(* A touch starts the session; a touch during a session changes nothing. *)
Start == running' = TRUE /\ left' = left

(* One second passes in a running session that has more than one left. *)
Tick == running /\ left > 1 /\ left' = left - 1 /\ running' = running

(* The last second passes: the session ends and the duration is rearmed. *)
Expire == running /\ left = 1 /\ running' = FALSE /\ left' = TOTAL

Next == Start \/ Tick \/ Expire

Spec == Init /\ [][Next]_<<running, left>>
=============================================================================
