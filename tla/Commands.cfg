SPECIFICATION Spec
CONSTANTS
  Cli = Cli
  Workers = {w}
  Inputs <- MCInputs
  MaxInputs = 3
  MaxWords = 5
  CAPACITY = 1
  MAX_INCREMENT = 3
  Beginnings <- MCBeginnings
  Garbage = "x"
INVARIANTS TypeOK DoesWhatIsAsked NeverAnotherCommand
