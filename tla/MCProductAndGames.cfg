SPECIFICATION SpecAll
CONSTANTS
  Windows = {w1, w2}
  Installations = {i1, i2}
  NoInstallation = NoInstallation
  MaxBoots = 3
  MaxFaults = 1
  MaxDamage = 1
  MaxRemovals = 1
  MaxStarts = 3
  MaxFlips = 2
  MaxReloads = 2
  MaxThrows = 1
  MaxRevisions = 3
  MaxConnections = 3
  MaxTimeouts = 2
  Characters = {hero}
  ChoiceIds = {yes}
  Entries = {e1}
  MaxCalls = 2
  MaxEdits = 1
  MaxPosted = 1
  v = v
  Data = {v}
  Buttons = {x}
  SelectButton = x
  Pads = {p}
  MaxInAir = 1
  FormOptions <- MCFormOptions
  MaxForms = 2
  MaxAttempts = 2
  MaxFormEvents = 1
SYMMETRY Symmetry
INVARIANTS
    CompleteIsWhole
    OneWorker
    QuietMeansSettled
    AnswersItsOwn
    OnlyTheNewestAttempt
PROPERTIES
    NoResurrection
    NoStuckButton
CHECK_DEADLOCK FALSE
