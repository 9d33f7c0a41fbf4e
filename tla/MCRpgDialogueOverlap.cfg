SPECIFICATION SpecDialogue
CONSTANTS
 Characters = {hero}
 ChoiceIds = {yes}
 Entries = {e1}
 MaxCalls = 2
 MaxEdits = 3
 MaxPosted = 1
INVARIANTS OnlyItsOwnAnswer
CHECK_DEADLOCK FALSE
