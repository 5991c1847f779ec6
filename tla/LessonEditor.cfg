SPECIFICATION FairEditorSpec
CONSTANTS
  Nil = Nil
  MaxCall = 2
  MaxRow = 10
  MaxItem = 1
  MaxEdit = 1
  MaxMishap = 1
INVARIANTS ListIsKept NoEditIsForgotten HiddenStaysHidden
PROPERTIES EditsReachServer
