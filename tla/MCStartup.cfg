SPECIFICATION Spec
CONSTANTS
  s1 = s1
  s2 = s2
  w1 = w1
  Symbols = {s1, s2}
  Writers = {w1}
  SECONDS = 3
  MICROS = 2
  StartTimes <- MCStartTimes
  MaxTime = 20
SYMMETRY Symmetry
INVARIANTS
  TypeOK
  CrashOnlyByUnnoticedOpen
  TimerOnTheMinute
  MinutesLabelled
CHECK_DEADLOCK FALSE
