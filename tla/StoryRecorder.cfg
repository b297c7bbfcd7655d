\* Three takes.
CONSTANTS
    MaxTake = 3
SPECIFICATION Spec
INVARIANTS
    TypeOK
    TimerTracksRecorder
    ButtonsNeedFinishedTake
    ClockRestarts
    MissedStopsComeFirst
PROPERTY
    EveryRecordingEnds
\* A screen that was left and records nothing has nothing more to do.
CHECK_DEADLOCK FALSE
