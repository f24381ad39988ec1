SPECIFICATION SoundSpec
CONSTANTS
  Ranges <- MCRanges
  Changes <- MCChanges
PROPERTIES
  ChangesInDirection
  AsLoudAsAsked
  MuteIsObeyed
