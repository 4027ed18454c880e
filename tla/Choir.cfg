SPECIFICATION Spec
CONSTANTS
  Notes <- MCNotes
  WordSize = 16
  Founders <- MCFounders
  Latecomers <- MCLatecomers
  Observer = 2
  Chords = {0, 1}
  Songs <- MCSongs
  Tempos = {2, 3}
  DefaultTempo = 2
  Epoch = 100
  LastTime = 104
  LateLimit = 3
  Workloads <- MCWorkloads
INVARIANTS
  RunningFiguresAreExact
  ObserverFollows
  NotesAreAssigned
PROPERTIES
  RingsOnTime
CHECK_DEADLOCK FALSE
