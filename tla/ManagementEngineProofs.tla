------------------------- MODULE ManagementEngineProofs -------------------------
(***************************************************************************)
(* Theorems about ManagementEngine: type correctness, what the button      *)
(* promises of the pending timers, that an ended charge stays ended, and   *)
(* that the cuts for a low cell and for stale data come, for all timings   *)
(* and any sets of signals, counters and checks.                           *)
(***************************************************************************)
EXTENDS ManagementEngine, TLAPS

LEMMA OlderAge == ASSUME NEW a \in Age PROVE Older(a) \in Age
BY TimingAssumption, SMT DEF Older, Age, Unset

LEMMA OlderAgeOrUnset == ASSUME NEW a \in AgeOrUnset PROVE Older(a) \in AgeOrUnset
BY TimingAssumption, SMT DEF Older, AgeOrUnset, Age, Unset

\* Ageing keeps the order of two ages, although both saturate.
LEMMA OlderMonotone ==
    ASSUME NEW a \in AgeOrUnset, NEW b \in Age, a <= b
    PROVE  Older(a) <= Older(b)
BY TimingAssumption, SMT DEF Older, AgeOrUnset, Age, Unset

LEMMA PendingType ==
    ASSUME NEW since \in AgeOrUnset, NEW condition PROVE Pending(since, condition) \in AgeOrUnset
BY TimingAssumption, SMT DEF Pending, AgeOrUnset, Age, Unset

\* Ages that are only just set, and those an apply() computes.
LEMMA FreshType == 0 \in Age /\ 0 \in AgeOrUnset /\ Unset \in AgeOrUnset /\ Cap \in Age
BY TimingAssumption, SMT DEF AgeOrUnset, Age, Unset

LEMMA StartType == ASSUME AgesTyped PROVE Start \in AgeOrUnset
BY FreshType DEF Start, AgesTyped

-----------------------------------------------------------------------------
(* Type correctness: one step per action, the ages apart from the rest.    *)

LEMMA InitType == Init => TypeOK
<1> SUFFICES ASSUME Init PROVE TypeOK
  OBVIOUS
<1>1. AgesTyped
  BY FreshType DEF Init, AgesTyped
<1>2. ReadingsTyped /\ FlagsTyped
  BY DEF Init, ReadingsTyped, FlagsTyped
<1>3. QED
  BY <1>1, <1>2 DEF TypeOK

LEMMA TypeStep == TypeOK /\ [Next]_vars => TypeOK'
<1> SUFFICES ASSUME TypeOK, [Next]_vars PROVE TypeOK'
  OBVIOUS
<1> USE DEF TypeOK
<1>1. CASE Apply \/ SessionEnd
  <2>1. /\ Compose /\ UNCHANGED sessionAge
        /\ phase' \in {"armed", "session"} /\ rearmed' \in BOOLEAN /\ composed' \in BOOLEAN
    BY <1>1 DEF Apply, SessionEnd, FlagsTyped, session
  <2>2. AgesTyped'
    BY <2>1, FreshType, StartType, PendingType
    DEF Compose, AgesTyped, ChangeAge, readings
  <2>3. ReadingsTyped' /\ FlagsTyped'
    BY <2>1 DEF Compose, ReadingsTyped, FlagsTyped, TempStop, EndsOnHeat, EndsOnLevel,
                Emergency, readings
  <2>4. QED
    BY <2>2, <2>3
<1>2. CASE SessionStart
  <2>1. AgesTyped'
    BY <1>2, FreshType DEF SessionStart, AgesTyped, LatchesCleared, arrivals, timers, latches
  <2>2. ReadingsTyped'
    BY <1>2 DEF SessionStart, ReadingsTyped, readings
  <2>3. FlagsTyped'
    BY <1>2 DEF SessionStart, FlagsTyped, LatchesCleared, arrivals, latches
  <2>4. QED
    BY <2>1, <2>2, <2>3
<1>3. CASE PowerLoss
  <2>1. AgesTyped'
    BY <1>3, FreshType DEF PowerLoss, AgesTyped
  <2>2. ReadingsTyped' /\ FlagsTyped'
    BY <1>3 DEF PowerLoss, ReadingsTyped, FlagsTyped
  <2>3. QED
    BY <2>1, <2>2
<1>4. CASE Reset
  <2>1. AgesTyped'
    BY <1>4, FreshType
    DEF Reset, AgesTyped, LatchesCleared, PendingCleared, arrivals, session
  <2>2. ReadingsTyped' /\ FlagsTyped'
    BY <1>4 DEF Reset, ReadingsTyped, FlagsTyped, LatchesCleared, readings, arrivals, session
  <2>3. QED
    BY <2>1, <2>2
<1>read. ASSUME Read PROVE FlagsTyped' /\ (lowFor' \in AgeOrUnset => AgesTyped')
  <2>1. FlagsTyped'
    BY <1>read DEF Read, FlagsTyped, arrivals, latches, session
  <2>2. lowFor' \in AgeOrUnset => AgesTyped'
    BY <1>read DEF Read, AgesTyped, arrivals, timers, session
  <2>3. QED
    BY <2>1, <2>2
<1>5. CASE Cells
  <2>1. ReadingsTyped'
    BY <1>5 DEF Cells, ReadingsTyped
  <2>2. lowFor' \in AgeOrUnset
    BY <1>5, PendingType DEF Cells, AgesTyped
  <2>3. QED
    BY <1>5, <1>read, <2>1, <2>2 DEF Cells
<1>6. CASE Temperatures
  <2>1. ReadingsTyped'
    BY <1>6 DEF Temperatures, ReadingsTyped
  <2>2. lowFor' \in AgeOrUnset
    BY <1>6 DEF Temperatures, AgesTyped
  <2>3. QED
    BY <1>6, <1>read, <2>1, <2>2 DEF Temperatures
<1>7. CASE Interlock
  <2>1. ReadingsTyped'
    BY <1>7 DEF Interlock, ReadingsTyped
  <2>2. lowFor' \in AgeOrUnset
    BY <1>7 DEF Interlock, AgesTyped
  <2>3. QED
    BY <1>7, <1>read, <2>1, <2>2 DEF Interlock
<1>8. ASSUME NEW c \in Checks, Sources(c) PROVE TypeOK'
  <2>1. disagrees' \subseteq Checks
    BY <1>8 DEF Sources, ReadingsTyped
  <2>2. ReadingsTyped'
    BY <1>8, <2>1 DEF Sources, ReadingsTyped
  <2>3. lowFor' \in AgeOrUnset
    BY <1>8 DEF Sources, AgesTyped
  <2>4. QED
    BY <1>8, <1>read, <2>2, <2>3 DEF Sources
<1>9. ASSUME NEW s \in Signals, SignalFrame(s) PROVE TypeOK'
  <2>1. age' \in [Signals -> AgeOrUnset]
    BY <1>9, FreshType DEF SignalFrame, AgesTyped
  <2>2. AgesTyped'
    BY <1>9, <2>1 DEF SignalFrame, AgesTyped, timers, session, history
  <2>3. ReadingsTyped'
    BY <1>9 DEF SignalFrame, ReadingsTyped, readings
  <2>4. FlagsTyped'
    BY <1>9 DEF SignalFrame, FlagsTyped, latches, session, history
  <2>5. QED
    BY <2>2, <2>3, <2>4
<1>10. ASSUME NEW c \in Counters, CounterFrame(c) PROVE TypeOK'
  <2>1. seen' \subseteq Counters /\ moved' \subseteq seen'
    BY <1>10 DEF CounterFrame, FlagsTyped
  <2>2. FlagsTyped'
    BY <1>10, <2>1 DEF CounterFrame, FlagsTyped, latches, session, history
  <2>3. AgesTyped'
    BY <1>10 DEF CounterFrame, AgesTyped, timers, session, history
  <2>4. ReadingsTyped'
    BY <1>10 DEF CounterFrame, ReadingsTyped, readings
  <2>5. QED
    BY <2>2, <2>3, <2>4
<1>11. CASE Elapse
  <2>1. AgesTyped'
    BY <1>11, OlderAge, OlderAgeOrUnset DEF Elapse, AgesTyped
  <2>2. ReadingsTyped'
    BY <1>11 DEF Elapse, ReadingsTyped, readings
  <2>3. FlagsTyped'
    BY <1>11 DEF Elapse, FlagsTyped, latches
  <2>4. QED
    BY <2>1, <2>2, <2>3
<1>12. CASE UNCHANGED vars
  BY <1>12 DEF vars, AgesTyped, ReadingsTyped, FlagsTyped, readings, arrivals, timers, latches,
               session, history
<1>13. QED
  BY <1>1, <1>2, <1>3, <1>4, <1>5, <1>6, <1>7, <1>8, <1>9, <1>10, <1>11, <1>12
  DEF Next, BatteryFrame

\* Every variable stays in its domain, whatever the timings and the inputs.
THEOREM TypeCorrect == Spec => []TypeOK
BY InitType, TypeStep, PTL DEF Spec

-----------------------------------------------------------------------------
(* The button.                                                             *)

LEMMA PendingStep == TypeOK /\ PendingSinceReset /\ [Next]_vars => PendingSinceReset'
<1> SUFFICES ASSUME TypeOK, PendingSinceReset, [Next]_vars PROVE PendingSinceReset'
  OBVIOUS
<1>ages. /\ resetAge \in AgeOrUnset /\ lowSince \in AgeOrUnset /\ staleSince \in AgeOrUnset
         /\ \A c \in Checks : checkSince[c] \in AgeOrUnset
         /\ resetAge # Unset => resetAge \in Age /\ resetAge \in Int /\ 0 <= resetAge
  BY TimingAssumption DEF TypeOK, AgesTyped, AgeOrUnset, Age
<1>pend. ASSUME NEW since \in AgeOrUnset, resetAge # Unset, since <= resetAge, NEW condition
         PROVE  Pending(since, condition) <= resetAge
  BY <1>ages, <1>pend DEF Pending, Unset
<1>1. CASE Apply \/ SessionEnd
  <2>1. Compose
    BY <1>1 DEF Apply, SessionEnd
  <2>2. QED
    BY <2>1, <1>ages, <1>pend DEF Compose, PendingSinceReset
<1>2. CASE Reset \/ PowerLoss
  BY <1>2, TimingAssumption DEF Reset, PowerLoss, PendingCleared, PendingSinceReset, Unset
<1>3. CASE Elapse
  <2>1. resetAge' # Unset => resetAge # Unset
    BY <1>3 DEF Elapse, Older
  <2>2. QED
    BY <1>3, <2>1, <1>ages, OlderMonotone DEF Elapse, PendingSinceReset
<1>4. ASSUME UNCHANGED timers, UNCHANGED resetAge PROVE PendingSinceReset'
  BY <1>4 DEF timers, PendingSinceReset
<1>5. CASE SessionStart
  BY <1>4, <1>5 DEF SessionStart, history
<1>6. CASE Cells \/ Temperatures \/ Interlock \/ \E c \in Checks : Sources(c)
  BY <1>4, <1>6 DEF Cells, Temperatures, Interlock, Sources, Read
<1>7. CASE (\E s \in Signals : SignalFrame(s)) \/ (\E c \in Counters : CounterFrame(c))
  BY <1>4, <1>7 DEF SignalFrame, CounterFrame, history
<1>8. CASE UNCHANGED vars
  BY <1>4, <1>8 DEF vars, history
<1>9. QED
  BY <1>1, <1>2, <1>3, <1>5, <1>6, <1>7, <1>8 DEF Next, BatteryFrame

\* No pending timer is older than the last press of the button: what was pending
\* before it cannot latch anything after it.
THEOREM ButtonRestarts == Spec => []PendingSinceReset
<1>1. Init => PendingSinceReset
  BY TimingAssumption DEF Init, PendingSinceReset, Unset
<1>2. QED
  BY <1>1, PendingStep, TypeCorrect, PTL DEF Spec

-----------------------------------------------------------------------------
(* The end of a charge.                                                    *)

\* EndedChargeStaysEnded is not inductive: whether a charge has ended is kept, while
\* the interlock is read as open, by the latches alone.
EndedLatched == ended => acChargeStopLatched \/ acChargeTempStopLatched

LEMMA EndedStep == EndedLatched /\ [Next]_vars => EndedLatched'
<1> SUFFICES ASSUME EndedLatched, [Next]_vars PROVE EndedLatched'
  OBVIOUS
<1>1. CASE Apply \/ SessionEnd
  BY <1>1 DEF Apply, SessionEnd, Compose, EndedLatched, TempStop
<1>2. CASE SessionStart
  BY <1>2 DEF SessionStart, LatchesCleared, latches, EndedLatched
<1>3. CASE Reset \/ PowerLoss
  BY <1>3 DEF Reset, PowerLoss, LatchesCleared, EndedLatched
<1>4. ASSUME UNCHANGED latches, UNCHANGED ended PROVE EndedLatched'
  BY <1>4 DEF latches, EndedLatched
<1>5. CASE Elapse
  BY <1>4, <1>5 DEF Elapse, history
<1>6. CASE Cells \/ Temperatures \/ Interlock \/ \E c \in Checks : Sources(c)
  BY <1>4, <1>6 DEF Cells, Temperatures, Interlock, Sources, Read
<1>7. CASE (\E s \in Signals : SignalFrame(s)) \/ (\E c \in Counters : CounterFrame(c))
  BY <1>4, <1>7 DEF SignalFrame, CounterFrame, history
<1>8. CASE UNCHANGED vars
  BY <1>4, <1>8 DEF vars, history
<1>9. QED
  BY <1>1, <1>2, <1>3, <1>5, <1>6, <1>7, <1>8 DEF Next, BatteryFrame

\* A latched stop leaves no output of the charge in which the charger may draw power.
LEMMA LatchedStops ==
    ASSUME charging, acChargeStopLatched \/ acChargeTempStopLatched
    PROVE  Output.full /\ Output.regenOff /\ Output.charger # "limit"
<1>1. AcTempDerate(AcTaper) \in {"stop", "scaled_stop"}
  BY DEF AcTempDerate, AcTaper
<1>2. OverTemperature(AcTempDerate(AcTaper)) \in {"stop", "scaled_stop", "zero"}
  BY <1>1 DEF OverTemperature
<1>3. Output.charger # "limit"
  BY <1>2 DEF Output, Staleness
<1>4. QED
  BY <1>3 DEF Output

\* Once a reading has ended a charge, every output while the interlock is read as closed
\* carries the stop, until a session start or the button.
THEOREM EndedStays == Spec => []EndedChargeStaysEnded
<1>1. Init => EndedLatched
  BY DEF Init, EndedLatched
<1>2. EndedLatched => EndedChargeStaysEnded
  BY LatchedStops DEF EndedLatched, EndedChargeStaysEnded
<1>3. QED
  BY <1>1, <1>2, EndedStep, PTL DEF Spec

-----------------------------------------------------------------------------
(* The watchdog and the sessions.                                          *)

\* What StaleOnlyInSession rests on.  In the first session the reference is set by its
\* first apply(), unless the button has set it before; in a later one by the frame that
\* starts it.  A timer left over from the session before is met by an apply() at the
\* start of the session, which finds nothing stale and clears it.
WatchdogInv ==
    /\ ~rearmed /\ phase = "armed" => firstApply = resetAge /\ staleSince = Unset
    /\ phase = "session" => firstApply <= CountedFor
    /\ phase = "session" /\ staleSince # Unset =>
           \/ CountedFor = Cap
           \/ staleSince + StaleSoft <= CountedFor
           \/ ~composed /\ firstApply = 0

\* No age counts from before the reference.
LEMMA StaleNeedsTime == ASSUME TypeOK, Stale PROVE Start >= StaleSoft
<1>1. Start \in Int /\ StaleSoft \in Int
  BY StartType, TimingAssumption DEF TypeOK, AgeOrUnset, Age, Unset
<1>2. ASSUME NEW s \in Signals PROVE SignalAge(s) <= Start
  <2>1. age[s] \in Int
    BY TimingAssumption DEF TypeOK, AgesTyped, AgeOrUnset, Age, Unset
  <2>2. QED
    BY <1>1, <2>1 DEF SignalAge
<1>3. ASSUME NEW c \in Counters PROVE CounterAge(c) <= Start
  <2>1. ChangeAge(c) \in Int
    BY TimingAssumption DEF ChangeAge, TypeOK, AgesTyped, Age
  <2>2. QED
    BY <1>1, <2>1 DEF CounterAge
<1>4. ASSUME NEW s \in Signals, SignalAge(s) >= StaleSoft PROVE Start >= StaleSoft
  <2>1. SignalAge(s) \in Int
    BY <1>1, TimingAssumption DEF SignalAge, TypeOK, AgesTyped, AgeOrUnset, Age, Unset
  <2>2. QED
    BY <1>1, <1>2, <1>4, <2>1
<1>5. ASSUME NEW c \in Counters, CounterAge(c) >= StaleSoft PROVE Start >= StaleSoft
  <2>1. CounterAge(c) \in Int
    BY <1>1, TimingAssumption DEF CounterAge, ChangeAge, TypeOK, AgesTyped, Age
  <2>2. QED
    BY <1>1, <1>3, <1>5, <2>1
<1>6. QED
  BY <1>4, <1>5 DEF Stale

LEMMA WatchdogAges ==
    ASSUME TypeOK
    PROVE  /\ firstApply \in Int /\ -1 <= firstApply /\ staleSince \in Int /\ -1 <= staleSince
           /\ sessionAge \in Int /\ 0 <= sessionAge /\ sessionAge <= Cap
           /\ resetAge \in Int /\ -1 <= resetAge /\ resetAge <= Cap
           /\ CountedFor \in Int /\ 0 <= CountedFor /\ CountedFor <= Cap
           /\ firstApply <= Cap /\ staleSince <= Cap
           /\ StaleSoft \in Int /\ 0 < StaleSoft /\ Cap \in Int /\ 0 <= Cap
BY TimingAssumption DEF TypeOK, AgesTyped, AgeOrUnset, Age, Unset, CountedFor

\* What apply() leaves of the watchdog's timer.
LEMMA ApplyStale ==
    ASSUME TypeOK, WatchdogInv, phase = "session", Compose
    PROVE  /\ firstApply' <= CountedFor
           /\ staleSince' # Unset => CountedFor = Cap \/ staleSince' + StaleSoft <= CountedFor
<1> USE WatchdogAges
<1>1. Start <= CountedFor
  BY DEF WatchdogInv, Start
<1>2. firstApply' <= CountedFor
  BY <1>1 DEF Compose
<1>3. ASSUME staleSince' # Unset
      PROVE  CountedFor = Cap \/ staleSince' + StaleSoft <= CountedFor
  <2>1. Stale /\ staleSince' = IF staleSince = Unset THEN 0 ELSE staleSince
    BY <1>3 DEF Compose, Pending
  <2>2. Start >= StaleSoft /\ Start \in Int
    BY <2>1, StaleNeedsTime DEF Start, Unset
  <2>3. CASE staleSince = Unset
    BY <1>1, <2>1, <2>2, <2>3
  <2>4. CASE staleSince # Unset
    <3>1. firstApply # 0
      BY <2>2 DEF Start, Unset
    <3>2. QED
      BY <2>1, <2>4, <3>1 DEF WatchdogInv
  <2>5. QED
    BY <2>3, <2>4
<1>4. QED
  BY <1>2, <1>3

LEMMA WatchdogStep == TypeOK /\ WatchdogInv /\ [Next]_vars => WatchdogInv'
<1> SUFFICES ASSUME TypeOK, WatchdogInv, [Next]_vars PROVE WatchdogInv'
  OBVIOUS
<1>1. CASE Apply
  <2>1. UNCHANGED <<phase, CountedFor>> /\ phase = "session"
    BY <1>1 DEF Apply, Compose, session, CountedFor
  <2>2. QED
    BY <1>1, <2>1, ApplyStale DEF WatchdogInv, Apply
<1>2. CASE SessionStart
  <2>1. /\ phase = "armed" /\ phase' = "session" /\ sessionAge' = 0 /\ composed' = FALSE
        /\ UNCHANGED staleSince
    BY <1>2 DEF SessionStart, timers
  <2>2. CASE rearmed
    <3>1. firstApply' = 0 /\ CountedFor' = 0 /\ rearmed'
      BY <1>2, <2>1, <2>2 DEF SessionStart, LatchesCleared, CountedFor
    <3>2. QED
      BY <2>1, <3>1 DEF WatchdogInv
  <2>3. CASE ~rearmed
    <3>1. firstApply' = resetAge /\ staleSince' = Unset /\ UNCHANGED <<resetAge, rearmed>>
      BY <1>2, <2>1, <2>3 DEF SessionStart, WatchdogInv
    <3>2. firstApply' <= CountedFor'
      BY <2>1, <2>3, <3>1, WatchdogAges DEF CountedFor
    <3>3. QED
      BY <2>1, <3>1, <3>2 DEF WatchdogInv
  <2>4. QED
    BY <2>2, <2>3
<1>3. CASE SessionEnd \/ PowerLoss
  BY <1>3 DEF SessionEnd, PowerLoss, WatchdogInv
<1>4. CASE Reset
  <2>1. firstApply' = 0 /\ staleSince' = Unset /\ resetAge' = 0 /\ UNCHANGED sessionAge
    BY <1>4 DEF Reset, LatchesCleared, PendingCleared, session
  <2>2. 0 <= CountedFor'
    BY <2>1, WatchdogAges DEF CountedFor
  <2>3. QED
    BY <2>1, <2>2 DEF WatchdogInv
<1>5. CASE Elapse
  <2>1. /\ UNCHANGED <<phase, rearmed>>
        /\ phase = "armed" \/ composed
        /\ firstApply' = Older(firstApply) /\ staleSince' = Older(staleSince)
        /\ sessionAge' = Older(sessionAge) /\ resetAge' = Older(resetAge)
    BY <1>5 DEF Elapse
  <2>2. CASE phase = "armed"
    BY <2>1, <2>2 DEF WatchdogInv, Older
  <2>older. CountedFor' = Older(CountedFor)
    BY <2>1, WatchdogAges DEF CountedFor, Older, Unset
  <2>3. CASE phase = "session" /\ composed
    <3>1. firstApply' <= CountedFor'
      BY <2>1, <2>3, <2>older, WatchdogAges DEF WatchdogInv, Older, Unset
    <3>2. ASSUME staleSince' # Unset
          PROVE  CountedFor' = Cap \/ staleSince' + StaleSoft <= CountedFor'
      <4>1. staleSince # Unset
        BY <2>1, <3>2 DEF Older
      <4>2. CountedFor = Cap \/ staleSince + StaleSoft <= CountedFor
        BY <2>3, <4>1 DEF WatchdogInv
      <4>3. QED
        BY <2>1, <4>1, <4>2, <2>older, WatchdogAges DEF Older, Unset
    <3>3. QED
      BY <2>1, <2>3, <3>1, <3>2 DEF WatchdogInv
  <2>4. QED
    BY <2>1, <2>2, <2>3 DEF TypeOK, FlagsTyped
<1>6. ASSUME UNCHANGED <<firstApply, staleSince, phase, rearmed, sessionAge, resetAge>>,
             composed' = FALSE \/ UNCHANGED composed
      PROVE  WatchdogInv'
  BY <1>6 DEF WatchdogInv, CountedFor
<1>7. CASE Cells \/ Temperatures \/ Interlock \/ \E c \in Checks : Sources(c)
  BY <1>6, <1>7 DEF Cells, Temperatures, Interlock, Sources, Read, timers, session
<1>8. CASE (\E s \in Signals : SignalFrame(s)) \/ (\E c \in Counters : CounterFrame(c))
  BY <1>6, <1>8 DEF SignalFrame, CounterFrame, timers, session, history
<1>9. CASE UNCHANGED vars
  BY <1>6, <1>9 DEF vars, timers, session, history
<1>10. QED
  BY <1>1, <1>2, <1>3, <1>4, <1>5, <1>7, <1>8, <1>9 DEF Next, BatteryFrame

\* A stale timer that an apply() leaves is no older than the session allows: data that
\* fell silent before the session has the whole soft time of the session to come back, but
\* for a first session after power-up that a press of the button came before.
THEOREM StaleSinceSession == Spec => StaleOnlyInSession
<1>1. Init => WatchdogInv
  BY DEF Init, WatchdogInv
<1>2. TypeOK /\ WatchdogInv /\ WatchdogInv' /\ [Next]_vars =>
        [composed' /\ staleSince' # Unset =>
           CountedFor' = Cap \/ staleSince' + StaleSoft <= CountedFor']_vars
  <2>1. SUFFICES ASSUME TypeOK, WatchdogInv, WatchdogInv', [Next]_vars, composed',
                        staleSince' # Unset, vars' # vars
                 PROVE  CountedFor' = Cap \/ staleSince' + StaleSoft <= CountedFor'
    OBVIOUS
  <2>2. Apply
    BY <2>1 DEF Next, BatteryFrame, SessionStart, SessionEnd, Reset, PowerLoss, Cells, Temperatures, Interlock, Sources,
                Read, SignalFrame, CounterFrame, Elapse
  <2>3. UNCHANGED CountedFor
    BY <2>2 DEF Apply, Compose, session, CountedFor
  <2>4. QED
    BY <2>1, <2>2, <2>3, ApplyStale DEF Apply
<1>3. QED
  BY <1>1, <1>2, WatchdogStep, TypeCorrect, PTL DEF Spec, StaleOnlyInSession

-----------------------------------------------------------------------------
(* The cuts that must come.                                                *)

\* apply() runs in sessions, and leaves no counter unlooked at.
PhaseInv == composed => phase = "session" /\ firstApply # Unset /\ moved = {}

LEMMA PhaseStep == TypeOK /\ PhaseInv /\ [Next]_vars => PhaseInv'
<1> SUFFICES ASSUME TypeOK, PhaseInv, [Next]_vars PROVE PhaseInv'
  OBVIOUS
<1> USE DEF PhaseInv
<1>1. CASE Apply
  <2>1. Start # Unset
    BY DEF Start, Unset
  <2>2. QED
    BY <1>1, <2>1 DEF Apply, Compose, session
<1>2. CASE SessionStart \/ SessionEnd \/ PowerLoss
  BY <1>2 DEF SessionStart, SessionEnd, PowerLoss
<1>3. CASE Reset
  BY <1>3 DEF Reset, session
<1>4. CASE Elapse
  BY <1>4 DEF Elapse, Older
<1>5. ASSUME UNCHANGED <<firstApply, phase, rearmed>>, composed' = FALSE PROVE PhaseInv'
  BY <1>5
<1>6. CASE Cells \/ Temperatures \/ Interlock \/ \E c \in Checks : Sources(c)
  BY <1>5, <1>6 DEF Cells, Temperatures, Interlock, Sources, Read, session
<1>7. CASE (\E s \in Signals : SignalFrame(s)) \/ (\E c \in Counters : CounterFrame(c))
  BY <1>5, <1>7 DEF SignalFrame, CounterFrame, session
<1>8. CASE UNCHANGED vars
  BY <1>8 DEF vars, session, arrivals
<1>9. QED
  BY <1>1, <1>2, <1>3, <1>4, <1>6, <1>7, <1>8 DEF Next, BatteryFrame

\* Unless the hard cut is latched, the soft timer of the low side has run since the cell
\* fell, since the button or since the session began, whatever the emergency tier did to it in between.
LowTimed ==
    phase = "session" /\ lowFor # Unset /\ firstApply # Unset /\ ~hardLatched =>
        \/ ~composed /\ (lowFor = 0 \/ firstApply = 0 \/ sessionAge = 0)
        \/ /\ lowSince # Unset
           /\ lowSince >= lowFor \/ lowSince >= firstApply \/ lowSince >= sessionAge
LowInv == (low # "ok" <=> lowFor # Unset) /\ LowTimed

LEMMA LowAges ==
    ASSUME TypeOK
    PROVE  /\ {lowFor, firstApply, lowSince} \subseteq AgeOrUnset
           /\ \A a \in {lowFor, firstApply, lowSince} : a \in Int /\ -1 <= a /\ a <= Cap
           /\ sessionAge \in Int /\ 0 <= sessionAge /\ sessionAge <= Cap
           /\ Cap \in Nat
BY TimingAssumption DEF TypeOK, AgesTyped, AgeOrUnset, Age, Unset

LEMMA LowStep == TypeOK /\ PhaseInv /\ LowInv /\ [Next]_vars => LowInv'
<1> SUFFICES ASSUME TypeOK, PhaseInv, LowInv, [Next]_vars PROVE LowInv'
  OBVIOUS
<1>0. /\ low \in {"ok", "low", "emergency"}
      /\ lowFor \in Int /\ firstApply \in Int /\ lowSince \in Int
      /\ -1 <= lowFor /\ -1 <= firstApply /\ -1 <= lowSince
      /\ sessionAge \in Int /\ 0 <= sessionAge
  BY LowAges DEF TypeOK, ReadingsTyped
<1>1. CASE Apply
  <2>1. /\ UNCHANGED <<low, lowFor, phase, sessionAge>> /\ phase = "session"
        /\ firstApply' = IF firstApply = Unset THEN 0 ELSE firstApply
        /\ lowSince' = IF low = "low" THEN (IF lowSince = Unset THEN 0 ELSE lowSince)
                       ELSE Unset
    BY <1>1 DEF Apply, Compose, Start, Pending, readings, session
  <2>2. low = "emergency" \/ hardLatched => hardLatched'
    BY <1>1 DEF Apply, Compose, Emergency
  <2>3. ASSUME lowFor # Unset, ~hardLatched'
        PROVE  /\ lowSince' # Unset
               /\ \/ lowSince' >= lowFor \/ lowSince' >= firstApply'
                  \/ lowSince' >= sessionAge
    <3>1. low = "low" /\ ~hardLatched
      BY <1>0, <2>2, <2>3 DEF LowInv
    <3>2. CASE firstApply = Unset
      BY <1>0, <2>1, <3>1, <3>2 DEF Unset
    <3>3. CASE firstApply # Unset
      BY <1>0, <2>1, <2>3, <3>1, <3>3 DEF LowInv, LowTimed, Unset
    <3>4. QED
      BY <3>2, <3>3
  <2>4. QED
    BY <2>1, <2>3 DEF LowInv, LowTimed
<1>2. CASE SessionStart
  <2>1. UNCHANGED <<low, lowFor>> /\ ~composed' /\ sessionAge' = 0
    BY <1>2 DEF SessionStart, readings
  <2>2. QED
    BY <2>1 DEF LowInv, LowTimed
<1>3. CASE SessionEnd \/ PowerLoss
  BY <1>3 DEF SessionEnd, PowerLoss, Compose, readings, LowInv, LowTimed
<1>4. CASE Reset
  BY <1>4 DEF Reset, LatchesCleared, readings, LowInv, LowTimed
<1>5. CASE Cells
  <2>1. /\ lowFor' = IF low' = "ok" THEN Unset ELSE IF lowFor = Unset THEN 0 ELSE lowFor
        /\ ~composed' /\ UNCHANGED <<firstApply, lowSince, hardLatched, phase, sessionAge>>
    BY <1>5 DEF Cells, Read, Pending, timers, latches, session
  <2>2. QED
    BY <1>0, <2>1 DEF LowInv, LowTimed, Unset
<1>6. CASE Elapse
  <2>1. /\ UNCHANGED <<low, hardLatched, phase>> /\ (phase = "armed" \/ composed)
        /\ lowFor' = Older(lowFor) /\ firstApply' = Older(firstApply)
        /\ lowSince' = Older(lowSince) /\ sessionAge' = Older(sessionAge)
    BY <1>6 DEF Elapse, readings, latches
  <2>2. low' # "ok" <=> lowFor' # Unset
    BY <1>0, <2>1 DEF LowInv, Older, Unset
  <2>3. LowTimed'
    BY <1>0, <2>1, LowAges DEF LowInv, LowTimed, Older, Unset
  <2>4. QED
    BY <2>2, <2>3 DEF LowInv
<1>7. ASSUME UNCHANGED <<low, lowFor, firstApply, lowSince, hardLatched, phase, sessionAge>>,
             composed' = FALSE \/ UNCHANGED composed
      PROVE  LowInv'
  BY <1>7 DEF LowInv, LowTimed
<1>8. CASE Temperatures \/ Interlock \/ \E c \in Checks : Sources(c)
  BY <1>7, <1>8 DEF Temperatures, Interlock, Sources, Read, timers, latches, session
<1>9. CASE (\E s \in Signals : SignalFrame(s)) \/ (\E c \in Counters : CounterFrame(c))
  BY <1>7, <1>9 DEF SignalFrame, CounterFrame, readings, timers, latches, session, history
<1>10. CASE UNCHANGED vars
  BY <1>7, <1>10 DEF vars, readings, timers, latches, session, history
<1>11. QED
  BY <1>1, <1>2, <1>3, <1>4, <1>5, <1>6, <1>8, <1>9, <1>10 DEF Next, BatteryFrame

\* A pack whose lowest cell has been low for the persistence time, within the session, is
\* cut in one of the two ways, although the cell may swing between the two tiers.
THEOREM LowCellCut == Spec => []LowCellIsCut
<1>1. Init => PhaseInv /\ LowInv
  BY DEF Init, PhaseInv, LowInv, LowTimed
<1>2. TypeOK /\ PhaseInv /\ LowInv => LowCellIsCut
  <2> SUFFICES ASSUME TypeOK, PhaseInv, LowInv, composed, lowFor >= LowPersistence,
                      firstApply >= LowPersistence, sessionAge >= LowPersistence, ~hardLatched
               PROVE  Output.empty
    BY DEF LowCellIsCut, Output
  <2>1. LowPersistence \in Nat
    BY TimingAssumption
  <2>2. lowFor # Unset /\ firstApply # Unset
    BY <2>1 DEF Unset
  <2>3. lowSince # Unset /\ lowSince >= LowPersistence
    BY <2>1, <2>2, LowAges DEF PhaseInv, LowInv, LowTimed
  <2>4. QED
    BY <2>3 DEF Output, HeldFor
<1>3. QED
  BY <1>1, <1>2, PhaseStep, LowStep, TypeCorrect, PTL DEF Spec

-----------------------------------------------------------------------------
\* How old the watchdog takes an input to be, its soft timer has run for what is beyond
\* the soft time, or for as long as the session, but for an age that has only just got
\* there and a session that has only just begun.
Timed(a) ==
    a >= StaleSoft =>
        \/ ~composed /\ (a = StaleSoft \/ sessionAge = 0)
        \/ staleSince # Unset /\ (staleSince >= a - StaleSoft \/ staleSince >= sessionAge)
InputsTimed == /\ \A s \in Signals : Timed(SignalAge(s))
               /\ \A c \in Counters : Timed(CounterAge(c))
StaleTimed == /\ phase = "session" => InputsTimed
              /\ composed /\ HeldFor(staleSince, StaleHard) => hardLatched

LEMMA StaleAges ==
    TypeOK => /\ StaleSoft \in Nat /\ StaleSoft > 0 /\ Cap \in Nat
              /\ staleSince \in Int /\ -1 <= staleSince /\ staleSince <= Cap
              /\ sessionAge \in Int /\ 0 <= sessionAge /\ sessionAge <= Cap
              /\ firstApply \in Int /\ -1 <= firstApply /\ firstApply <= Cap
              /\ Start \in Int /\ 0 <= Start /\ Start <= Cap
              /\ \A s \in Signals : age[s] \in Int /\ -1 <= age[s] /\ age[s] <= Cap
              /\ \A c \in Counters : changeAge[c] \in Int /\ 0 <= changeAge[c] /\ changeAge[c] <= Cap
BY TimingAssumption DEF TypeOK, AgesTyped, AgeOrUnset, Age, Unset, Start

\* Right after the reference of the watchdog was moved no input is old.
LEMMA JustStarted ==
    TypeOK /\ Start = 0 => /\ \A s \in Signals : SignalAge(s) = 0
                          /\ \A c \in Counters : CounterAge(c) = 0
BY StaleAges DEF SignalAge, CounterAge, ChangeAge, Unset

\* The button moves it.
LEMMA RestartAges ==
    ASSUME TypeOK', Reset
    PROVE  /\ \A s \in Signals : SignalAge(s)' = 0
           /\ \A c \in Counters : CounterAge(c)' = 0
<1>1. Start' = 0
  BY DEF Reset, LatchesCleared, Start
<1>2. (TypeOK /\ Start = 0)'
  BY <1>1
<1>3. (/\ \A s \in Signals : SignalAge(s) = 0
       /\ \A c \in Counters : CounterAge(c) = 0)'
  BY <1>2, JustStarted, PTL
<1>4. QED
  BY <1>3

\* apply() sees the ages it leaves.
LEMMA ApplyKeepsAges ==
    ASSUME TypeOK, Compose
    PROVE  /\ \A s \in Signals : SignalAge(s)' = SignalAge(s)
           /\ \A c \in Counters : CounterAge(c)' = CounterAge(c)
<1>1. Start' = Start
  BY StaleAges DEF Compose, Start, Unset
<1>2. \A c \in Counters : ChangeAge(c)' = ChangeAge(c)
  BY DEF Compose, ChangeAge
<1>3. QED
  BY <1>1, <1>2 DEF Compose, SignalAge, CounterAge

\* The clock makes every input of a composed state older by one, or leaves it at Cap.
LEMMA ElapseAges ==
    ASSUME TypeOK, PhaseInv, composed, Elapse
    PROVE  /\ \A s \in Signals : SignalAge(s)' = Older(SignalAge(s))
           /\ \A c \in Counters : CounterAge(c)' = Older(CounterAge(c))
<1>1. Start = firstApply /\ Start' = Older(Start)
  BY StaleAges DEF PhaseInv, Elapse, Start, Older, Unset
<1>2. \A s \in Signals : age[s]' = Older(age[s])
  BY DEF Elapse
<1>3. \A c \in Counters : ChangeAge(c) = changeAge[c] /\ ChangeAge(c)' = Older(changeAge[c])
  BY DEF PhaseInv, Elapse, ChangeAge
<1>4. seen' = seen
  BY DEF Elapse
<1>5. \A s \in Signals : SignalAge(s)' = Older(SignalAge(s))
  BY <1>1, <1>2, StaleAges DEF SignalAge, Older, Unset
<1>6. \A c \in Counters : CounterAge(c)' = Older(CounterAge(c))
  BY <1>1, <1>3, <1>4, StaleAges DEF CounterAge, Older, Unset
<1>7. QED
  BY <1>5, <1>6

LEMMA AgeRanges ==
    TypeOK => /\ \A s \in Signals : SignalAge(s) \in Int /\ 0 <= SignalAge(s) /\ SignalAge(s) <= Cap
              /\ \A c \in Counters : CounterAge(c) \in Int /\ 0 <= CounterAge(c) /\ CounterAge(c) <= Cap
<1> SUFFICES ASSUME TypeOK
             PROVE  /\ \A s \in Signals : SignalAge(s) \in Int /\ 0 <= SignalAge(s) /\ SignalAge(s) <= Cap
                    /\ \A c \in Counters : CounterAge(c) \in Int /\ 0 <= CounterAge(c) /\ CounterAge(c) <= Cap
  OBVIOUS
<1>1. \A s \in Signals : SignalAge(s) \in Int /\ 0 <= SignalAge(s) /\ SignalAge(s) <= Cap
  BY StaleAges DEF SignalAge, Unset
<1>2. \A c \in Counters : CounterAge(c) \in Int /\ 0 <= CounterAge(c) /\ CounterAge(c) <= Cap
  BY StaleAges DEF CounterAge, ChangeAge
<1>3. QED
  BY <1>1, <1>2

\* A frame of the battery makes one input new, at most.
LEMMA FrameAges ==
    ASSUME TypeOK, BatteryFrame
    PROVE  /\ \A s \in Signals : SignalAge(s)' \in {0, SignalAge(s)}
           /\ \A c \in Counters : CounterAge(c)' \in {0, CounterAge(c)}
<1>0. UNCHANGED firstApply /\ UNCHANGED changeAge
  BY DEF BatteryFrame, Cells, Temperatures, Interlock, Sources, Read, SignalFrame, CounterFrame
<1>1. Start' = Start /\ 0 <= Start /\ Start \in Int
  BY <1>0, StaleAges DEF Start
<1>2. CASE UNCHANGED arrivals
  BY <1>0, <1>1, <1>2 DEF SignalAge, CounterAge, ChangeAge, arrivals
<1>3. CASE Cells \/ Temperatures \/ Interlock \/ \E c \in Checks : Sources(c)
  BY <1>2, <1>3 DEF Cells, Temperatures, Interlock, Sources, Read
<1>4. ASSUME NEW s \in Signals, SignalFrame(s)
      PROVE  /\ \A t \in Signals : SignalAge(t)' \in {0, SignalAge(t)}
             /\ \A c \in Counters : CounterAge(c)' \in {0, CounterAge(c)}
  <2>1. UNCHANGED <<moved, seen>> /\ age' = [age EXCEPT ![s] = 0]
    BY <1>4 DEF SignalFrame
  <2>2. \A t \in Signals : SignalAge(t)' \in {0, SignalAge(t)}
    BY <1>1, <2>1 DEF SignalAge, Unset, TypeOK, AgesTyped
  <2>3. \A c \in Counters : CounterAge(c)' \in {0, CounterAge(c)}
    BY <1>0, <1>1, <2>1 DEF CounterAge, ChangeAge
  <2>4. QED
    BY <2>2, <2>3
<1>5. ASSUME NEW c \in Counters, CounterFrame(c)
      PROVE  /\ \A s \in Signals : SignalAge(s)' \in {0, SignalAge(s)}
             /\ \A d \in Counters : CounterAge(d)' \in {0, CounterAge(d)}
  <2>1. /\ UNCHANGED age /\ seen' = seen \cup {c}
        /\ moved' = moved \cup {c} \/ (c \in seen /\ moved' = moved)
    BY <1>5 DEF CounterFrame
  <2>2. \A s \in Signals : SignalAge(s)' \in {0, SignalAge(s)}
    BY <1>1, <2>1 DEF SignalAge
  <2>3. ASSUME NEW d \in Counters PROVE CounterAge(d)' \in {0, CounterAge(d)}
    <3>1. CASE d = c /\ moved' = moved \cup {c}
      BY <1>0, <1>1, <2>1, <3>1 DEF CounterAge, ChangeAge
    <3>2. CASE d # c \/ (c \in seen /\ moved' = moved)
      BY <1>0, <1>1, <2>1, <3>2 DEF CounterAge, ChangeAge
    <3>3. QED
      BY <2>1, <3>1, <3>2
  <2>4. QED
    BY <2>2, <2>3
<1>6. QED
  BY <1>3, <1>4, <1>5 DEF BatteryFrame

LEMMA StaleTimedStep == TypeOK /\ TypeOK' /\ PhaseInv /\ StaleTimed /\ [Next]_vars => StaleTimed'
<1> SUFFICES ASSUME TypeOK, TypeOK', PhaseInv, StaleTimed, [Next]_vars PROVE StaleTimed'
  OBVIOUS
<1>1. CASE Apply
  <2>1. phase = "session" /\ InputsTimed
    BY <1>1 DEF Apply, StaleTimed
  <2>2. /\ staleSince' = IF ~Stale THEN Unset ELSE IF staleSince = Unset THEN 0 ELSE staleSince
        /\ UNCHANGED sessionAge
    BY <1>1 DEF Apply, Compose, Pending, session
  <2>3. ASSUME NEW a \in Int, Timed(a), a >= StaleSoft => Stale
        PROVE  Timed(a)'
    BY <2>2, <2>3, StaleAges DEF Timed, Unset
  <2>4. InputsTimed'
    BY <2>1, <2>3, AgeRanges, ApplyKeepsAges, <1>1 DEF Apply, InputsTimed, Stale, Timed
  <2>5. HeldFor(staleSince', StaleHard) => hardLatched'
    BY <1>1 DEF Apply, Compose
  <2>6. QED
    BY <2>4, <2>5 DEF StaleTimed, HeldFor
<1>2. CASE SessionStart
  BY <1>2 DEF SessionStart, StaleTimed, InputsTimed, Timed
<1>reset. CASE Reset
  <2>1. InputsTimed'
    BY <1>reset, RestartAges, StaleAges DEF InputsTimed, Timed
  <2>2. QED
    BY <1>reset, <2>1 DEF Reset, StaleTimed
<1>3. CASE SessionEnd \/ PowerLoss
  BY <1>3 DEF SessionEnd, PowerLoss, StaleTimed
<1>4. CASE Elapse
  <2>1. ~composed' /\ phase' = phase
    BY <1>4 DEF Elapse
  <2>2. CASE phase = "session"
    <3>1. /\ composed /\ InputsTimed
          /\ staleSince' = Older(staleSince) /\ sessionAge' = Older(sessionAge)
      BY <1>4, <2>2 DEF Elapse, StaleTimed
    <3>2. ASSUME NEW a \in Int, 0 <= a, a <= Cap, Timed(a), NEW b, b = Older(a), b >= StaleSoft
          PROVE  \/ b = StaleSoft
                 \/ /\ staleSince' # Unset
                    /\ staleSince' >= b - StaleSoft \/ staleSince' >= sessionAge'
      BY <3>1, <3>2, StaleAges DEF Timed, Older, Unset
    <3>3. ASSUME NEW s \in Signals PROVE Timed(SignalAge(s))'
      <4>1. /\ SignalAge(s) \in Int /\ 0 <= SignalAge(s) /\ SignalAge(s) <= Cap
            /\ Timed(SignalAge(s)) /\ SignalAge(s)' = Older(SignalAge(s))
        BY <3>1, <1>4, ElapseAges, AgeRanges DEF InputsTimed
      <4>2. QED
        BY <2>1, <3>2, <4>1 DEF Timed
    <3>4. ASSUME NEW c \in Counters PROVE Timed(CounterAge(c))'
      <4>1. /\ CounterAge(c) \in Int /\ 0 <= CounterAge(c) /\ CounterAge(c) <= Cap
            /\ Timed(CounterAge(c)) /\ CounterAge(c)' = Older(CounterAge(c))
        BY <3>1, <1>4, ElapseAges, AgeRanges DEF InputsTimed
      <4>2. QED
        BY <2>1, <3>2, <4>1 DEF Timed
    <3>5. QED
      BY <2>1, <3>3, <3>4 DEF StaleTimed, InputsTimed
  <2>3. QED
    BY <2>1, <2>2 DEF StaleTimed
<1>5. CASE BatteryFrame
  <2>1. UNCHANGED <<staleSince, phase, sessionAge>> /\ ~composed'
    BY <1>5 DEF BatteryFrame, Cells, Temperatures, Interlock, Sources, Read, SignalFrame,
                CounterFrame, timers, session
  <2>2. QED
    BY <1>5, <2>1, FrameAges, StaleAges, AgeRanges DEF StaleTimed, InputsTimed, Timed
<1>6. CASE UNCHANGED vars
  BY <1>6 DEF vars, arrivals, timers, latches, session, StaleTimed, InputsTimed, Timed,
               SignalAge, CounterAge, ChangeAge, Start, HeldFor
<1>7. QED
  BY <1>1, <1>2, <1>reset, <1>3, <1>4, <1>5, <1>6 DEF Next

\* The watchdog's timer has run for whatever an input is older than the soft time, or for
\* as long as the session has, in every state of a session; other components rely on it,
\* through the composition.
THEOREM WatchdogKeepsTime == Spec => [](TypeOK /\ PhaseInv /\ StaleTimed)
<1>1. Init => PhaseInv /\ StaleTimed
  BY DEF Init, PhaseInv, StaleTimed
<1>2. QED
  BY <1>1, PhaseStep, StaleTimedStep, TypeCorrect, PTL DEF Spec

\* A session without fresh data for the soft and the hard time of the watchdog is cut:
\* no frame of another input, no counter that stands still in frames that arrive, no
\* clamp to the session start delays it.
THEOREM StaleSessionCut == Spec => []StaleSessionIsCut
<1>1. TypeOK /\ PhaseInv /\ StaleTimed => StaleSessionIsCut
  <2> SUFFICES ASSUME TypeOK, PhaseInv, StaleTimed, composed,
                      sessionAge >= StaleSoft + StaleHard, firstApply >= StaleSoft + StaleHard,
                      \/ \E s \in Signals : age[s] \notin 0..(StaleSoft + StaleHard - 1)
                      \/ \E c \in Counters : c \notin seen \/ ~(changeAge[c] < StaleSoft + StaleHard)
               PROVE  hardLatched
    BY StaleAges, TimingAssumption DEF StaleSessionIsCut, Output
  <2>1. StaleSoft \in Nat /\ StaleHard \in Nat
    BY TimingAssumption
  <2>2. Start = firstApply /\ InputsTimed /\ moved = {}
    BY DEF PhaseInv, StaleTimed, Start
  <2>3. ASSUME NEW a \in Int, a >= StaleSoft + StaleHard, Timed(a) PROVE hardLatched
    BY <2>1, <2>3, StaleAges DEF Timed, StaleTimed, HeldFor
  <2>4. ASSUME NEW s \in Signals, age[s] \notin 0..(StaleSoft + StaleHard - 1)
        PROVE  hardLatched
    <3>1. SignalAge(s) \in Int /\ SignalAge(s) >= StaleSoft + StaleHard
      BY <2>1, <2>2, <2>4, StaleAges DEF SignalAge, Unset
    <3>2. QED
      BY <2>2, <2>3, <3>1 DEF InputsTimed
  <2>5. ASSUME NEW c \in Counters, c \notin seen \/ ~(changeAge[c] < StaleSoft + StaleHard)
        PROVE  hardLatched
    <3>1. CounterAge(c) \in Int /\ CounterAge(c) >= StaleSoft + StaleHard
      BY <2>1, <2>2, <2>5, StaleAges DEF CounterAge, ChangeAge
    <3>2. QED
      BY <2>2, <2>3, <3>1 DEF InputsTimed
  <2>6. QED
    BY <2>4, <2>5
<1>2. QED
  BY <1>1, WatchdogKeepsTime, PTL
================================================================================
