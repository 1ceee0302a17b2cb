SPECIFICATION FairSpec
INVARIANT RunsOnItsFrame
INVARIANT TracesItsOwn
INVARIANT CoreShowsTheFault
PROPERTY EndsOfASignal
CONSTANT
    MaxSignals = 3
