SPECIFICATION Spec
CONSTANTS
  Texts <- MCTexts
  Commands <- MCCommands
  Lower <- MCLower
  Atoi <- MCAtoi
  NullText = NullText
  MaxCommands = 4
INVARIANTS
  TypeOK
  SettingsAsWritten
  RoutesAsWritten
  ReadmeUnlessSwitchedLater
  CorsAsWritten
CHECK_DEADLOCK FALSE
