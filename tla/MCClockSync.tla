----------------------------- MODULE MCClockSync -----------------------------
(* A sender that is ahead of the listener and one that is behind, by more   *)
(* than a second (of eight microseconds, see the configuration).  Either    *)
(* they all start and stop, with runs that have no time for a second try;   *)
(* or there is one run, which has the time to take the best of two answers. *)
EXTENDS ClockSync

CONSTANTS ahead, behind

VARIABLE leisurely

Apart == [s \in Senders |-> IF s = ahead THEN 14 ELSE -10]

OneRun == INSTANCE ClockSync
  WITH delay <- 2, MaxTime <- 6, MaxSessions <- 1, MaxRuns <- 1, MaxStreams <- 1

ClockInit == leisurely \in BOOLEAN /\ Init

ClockNext ==
  /\ UNCHANGED leisurely
  /\ IF leisurely THEN OneRun!Next ELSE Next

ClockSpec ==
  /\ ClockInit /\ [][ClockNext]_<<vars, leisurely>>
  /\ WF_<<vars, leisurely>>(UNCHANGED leisurely /\ IF leisurely THEN OneRun!Client ELSE Client)
=============================================================================
