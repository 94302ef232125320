\* The fish script, whose list --format and kill --wait take their value as a word of its own.
SPECIFICATION LineSpec
CONSTANTS
  Guides = {"fish"}
  MaxOptions = 2
INVARIANTS ScriptsInSync
