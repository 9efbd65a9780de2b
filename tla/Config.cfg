SPECIFICATION Spec
CONSTANTS
  Files <- AllFiles
  Commands <- AllCommands
  BUFFER_SIZE = 2
  Unopenable = {"/no"}
  Dotted = {"10.0.0.1", "10.0.0.2"}
INVARIANTS
  TypeOK
  FileFitsBuffer
  SettingsAsGiven
  MistypedSettingIsAnEarlierOne
  ConnectsWhereTold
  EndTellsTheCause
