SPECIFICATION FairHostSpec
CONSTANTS
  MaxFrames = 3
  Sources = {"xyz", "map"}
  First = "xyz"
  Default = "map"
  HistoryBits = 8
  BlockSize = 2
INVARIANTS HostTypeOK ReaderAlone NullOnlyAfterLive SavedWholeUnlessSwapped
PROPERTIES ImplementsLatestFrame ChosenIsShown
CHECK_DEADLOCK FALSE
