------------------------------- MODULE Watchdog --------------------------------
(***************************************************************************)
(* The canary watchdog (watchdog_5700.sh): cycles of a probe, a window of  *)
(* the container's log, an alert and a sleep.                              *)
(***************************************************************************)
EXTENDS Integers, Sequences, FiniteSets

CONSTANTS
  Interval,   \* INTERVAL, in ticks
  Slack,      \* the 5 seconds by which the window is longer
  MaxProbe,   \* curl's --max-time
  HoldK,      \* HOLD_K
  MaxCycles   \* bound: cycles

VARIABLES
  cycles,
  events,    \* what the log got: [kind, age, counted, slow]
  since,     \* LAST
  hold,      \* consecutive degraded cycles
  alert,     \* of the last cycle
  past       \* the states of the cycles, for the properties

vars == <<cycles, events, since, hold, alert, past>>

LineKinds == {"Out-of-vocab", "EngineDeadError"}

Init ==
  /\ cycles = 0 /\ events = {} /\ since = 0 /\ hold = 0
  /\ alert = "none" /\ past = <<>>

\* The interval alone.
WindowWithoutSlack(lines) == {e \in lines : e.age < since - Slack}

\* The log's lines of the last LAST seconds.
Window(lines) == {e \in lines : e.age < since}

Count(kind, lines) == Cardinality({e \in lines : e.kind = kind})

\* DEAD leaves the count of degraded cycles as it is.
HoldKept(dead, degraded) == IF dead THEN hold ELSE IF degraded THEN hold + 1 ELSE 0
NextHold(dead, degraded) == IF dead THEN 0 ELSE IF degraded THEN hold + 1 ELSE 0

\* A cycle, from one look at the log to the next: probe is how long curl took, well
\* whether it said 200 and the memory suffices, and fresh the lines that came in
\* since, of which there is at most one here, with their ages.
Cycle(probe, well, fresh) ==
  LET gap   == Interval + probe
      older == {[e EXCEPT !.age = @ + gap] : e \in events}
      lines == older \cup {[kind |-> f[1], age |-> f[2], counted |-> 0,
                            slow |-> probe > Slack \/ cycles = 0] : f \in fresh}
      seen  == Window(lines)
      dead  == Count("EngineDeadError", seen) > 0
      bad   == ~well \/ Count("Out-of-vocab", seen) > 0
  IN  /\ cycles < MaxCycles
      /\ cycles' = cycles + 1
      /\ events' = {[e EXCEPT !.counted = IF e \in seen THEN @ + 1 ELSE @] : e \in lines}
      /\ since' = Interval + Slack
      /\ hold' = NextHold(dead, bad)
      /\ alert' = IF dead THEN "DEAD" ELSE IF hold' >= HoldK /\ bad THEN "HOLD" ELSE "none"
      /\ past' = Append(past, IF dead THEN "dead" ELSE IF bad THEN "degraded" ELSE "fine")

Next ==
  \/ \E probe \in 0..MaxProbe, well \in BOOLEAN :
       \/ Cycle(probe, well, {})
       \/ \E kind \in LineKinds, age \in 0..(Interval + probe - 1) :
            Cycle(probe, well, {<<kind, age>>})
  \/ cycles = MaxCycles /\ UNCHANGED vars

Spec == Init /\ [][Next]_vars

-------------------------------------------------------------------------------
(* Properties. *)

\* The windows cover the log: a line is missed only if the probe of its cycle
\* took longer than the slack, or it is older than the watchdog's first look;
\* and the overlap shows it in two cycles at most.
WindowsCover ==
  \A e \in events :
    /\ e.counted = 0 => e.slow
    /\ e.counted <= 2

\* HOLD is raised exactly in those cycles that end a row of HOLD_K degraded ones,
\* which a DEAD cycle interrupts.
HoldIsConsecutive ==
  alert = "HOLD" <=>
    /\ Len(past) >= HoldK
    /\ \A i \in (Len(past) - HoldK + 1)..Len(past) : past[i] = "degraded"

===============================================================================
