\* An action of the browser, its two reads and the search, and the four rounds of the default.
CONSTANTS
  click = click
  Reads = {}
  Actions = {click}
  Browser <- MCBrowser
  Findings <- MCFindings
  ToolErrors = {timeout}
  MaxRounds = 4
  MaxCalls = 1
SPECIFICATION TurnSpec
CHECK_DEADLOCK FALSE
INVARIANTS
  AnswerHasEvidence
  OneRequestPerAction
  RepetitionEnds
PROPERTY
  TurnEnds
