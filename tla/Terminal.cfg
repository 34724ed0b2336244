SPECIFICATION TerminalSpec
\* After the command exit the processor is halted.
CHECK_DEADLOCK FALSE
CONSTANTS
  VGA_WIDTH = 3
  VGA_HEIGHT = 3
  TabStop = 2
  BUFFER_SIZE = 7
  MAX_ARGS = 2
  scancode_map <- MCScancodeMap
  ScanCodes <- MCScanCodes
  BreakBit = 7
  Chars <- MCChars
  Printable <- MCPrintable
  Welcome <- MCWelcome
  PromptText <- MCPrompt
  Handlers <- MCHandlers
  Outputs <- MCOutputs
  Leftovers <- MCLeftovers
  UiOn <- MCUiOn
  UiOff <- MCUiOff
  UiTitle <- MCUiTitle
  UiStatus <- MCUiStatus
  UiContent <- MCUiContent
  UI_CONTENT_ROWS = 2
INVARIANTS TerminalTypeOK EchoIsTheLine PromptIntact ArgsAreTheWords
