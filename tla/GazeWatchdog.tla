----------------------------- MODULE GazeWatchdog -----------------------------
(***************************************************************************)
(* What the subscriber of the gaze topic is promised (protocol.md, section *)
(* 1 item 5 and section 7), whatever happens to the camera, the service,   *)
(* the connection and stdout: fresh targets move forward, a fresh target   *)
(* is withdrawn exactly once and in time, and once the program has decided *)
(* to end only the answer it holds when it cancels its last request may    *)
(* still become a fresh target.                                            *)
(***************************************************************************)
EXTENDS Integers

CONSTANTS MaxFrames, StaleAfter

VARIABLES
  sample,  \* the gaze target published last
  last,    \* frame of the last fresh target, 0 before the first
  age,     \* ticks since then, -1 before the first
  stage    \* live; ending, decided to end; ended, its last request cancelled

gvars == <<sample, last, age, stage>>

GInit ==
  /\ sample = [kind |-> "none", frame |-> 0]
  /\ last = 0 /\ age = -1 /\ stage = "live"

Onward ==
  \/ stage' = stage
  \/ stage = "live" /\ stage' = "ending"
  \/ stage = "ending" /\ stage' = "ended"

Fresh ==
  /\ \/ stage = "live" /\ stage' = "live"
     \/ stage = "ending" /\ stage' = "ended"
  /\ \E f \in 1..MaxFrames :
       /\ f > last
       /\ sample' = [kind |-> "fresh", frame |-> f] /\ last' = f
  /\ age' = 0

(* The withdrawal: at its deadline, or because the program ends.           *)
Withdraw ==
  /\ sample.kind = "fresh"
  /\ sample' = [kind |-> "stale", frame |-> last]
  /\ UNCHANGED <<last, age>>

Overdue == stage = "live" /\ age >= StaleAfter /\ Withdraw /\ UNCHANGED stage

WithdrawAtEnd == stage' # "live" /\ Onward /\ Withdraw

(* Before the first fresh target there is nothing to withdraw: a stale     *)
(* sample then only says which frame got no answer.                        *)
NoAnswerYet ==
  /\ last = 0
  /\ \E f \in 1..MaxFrames : sample' = [kind |-> "stale", frame |-> f]
  /\ Onward
  /\ UNCHANGED <<last, age>>

Tick ==
  /\ stage = "live"
  /\ sample.kind = "fresh" => age < StaleAfter
  /\ age # -1 /\ age' = IF age > StaleAfter THEN age ELSE age + 1
  /\ UNCHANGED <<sample, last, stage>>

End == Onward /\ UNCHANGED <<sample, last, age>>

GNext == Fresh \/ Overdue \/ WithdrawAtEnd \/ NoAnswerYet \/ Tick \/ End

GSpec == GInit /\ [][GNext]_gvars

GFairSpec == GSpec /\ WF_gvars(Tick) /\ WF_gvars(Overdue)
=============================================================================
