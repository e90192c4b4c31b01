---------------------------- MODULE CleanShutdown ----------------------------
(***************************************************************************)
(* A guest is asked to shut down, and asked again now and then while the   *)
(* driver waits: a guest that still boots takes no notice.  Asking may     *)
(* fail, and then the driver does not sleep.  The guest is external.       *)
(***************************************************************************)
EXTENDS Integers

CONSTANTS Timeout, RetryInterval

CleanShutdownAssumption == Timeout \in Nat /\ RetryInterval \in Nat

VARIABLES
  guest,     \* "booting", "ready", "stopping" (it was asked) or "off"
  shutdown,  \* _clean_shutdown: "idle", "looping" or "done"
  sec,       \* of its loop
  countdown, \* retry_countdown
  unasked    \* turns of the loop without asking

vars == <<guest, shutdown, sec, countdown, unasked>>

Init ==
  /\ guest \in {"booting", "ready"} /\ shutdown = "idle"
  /\ sec = 0 /\ countdown = RetryInterval /\ unasked = 0

Asked == IF guest = "ready" THEN "stopping" ELSE guest

\* The guest boots, or stops, at any time of its own; it may be started again.
Boot == guest = "booting" /\ guest' = "ready" /\ UNCHANGED <<shutdown, sec, countdown, unasked>>
Halt == guest \in {"stopping", "ready"} /\ guest' = "off" /\ UNCHANGED <<shutdown, sec, countdown, unasked>>

Begin ==
  /\ shutdown = "idle" /\ guest # "off" /\ guest' = Asked /\ shutdown' = "looping"
  /\ UNCHANGED <<sec, countdown, unasked>>

\* Mutant: the countdown is not set again.
CountOn(c) == c - 1

\* Mutant: it starts from the timeout.
CountTimeout(c) == IF c = 0 THEN Timeout ELSE c - 1

Recount(c) == IF c = 0 THEN RetryInterval ELSE c - 1

\* One turn of the loop.
Turn(fails) ==
  /\ shutdown = "looping" /\ sec < Timeout /\ guest # "off"
  /\ sec' = sec + 1 /\ countdown' = Recount(countdown)
  /\ guest' = IF countdown = 0 /\ ~fails THEN Asked ELSE guest
  /\ unasked' = IF countdown = 0 THEN 0 ELSE unasked + 1
  /\ UNCHANGED shutdown

\* It returns, and power_off destroys what is left.
Destroy ==
  /\ shutdown = "looping" /\ (sec = Timeout \/ guest = "off")
  /\ shutdown' = "done" /\ guest' = "off" /\ UNCHANGED <<sec, countdown, unasked>>

Next == Boot \/ Halt \/ Begin \/ (\E fails \in BOOLEAN : Turn(fails)) \/ Destroy

Spec == Init /\ [][Next]_vars

-----------------------------------------------------------------------------
TypeOK ==
  /\ guest \in {"booting", "ready", "stopping", "off"} /\ shutdown \in {"idle", "looping", "done"}
  /\ sec \in 0 .. Timeout /\ countdown \in Nat /\ unasked \in Nat

\* However long the guest boots, it is asked at least every RetryInterval + 1
\* turns, so one that is ready that long before the timeout is not destroyed
\* without having been asked (driver_22.04.py:4012-4043).
AskedInTime == unasked <= RetryInterval
=============================================================================
