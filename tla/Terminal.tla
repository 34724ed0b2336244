------------------------------ MODULE Terminal ------------------------------
(***************************************************************************)
(* The console: kernel/keyboard.c feeds the command loop of shell/shell.c, *)
(* which edits a line, echoes it through kernel/vga.c, splits it into      *)
(* arguments and runs a command.  A character is a short string, a command *)
(* is known by its name and what it writes; colours are left out.  The     *)
(* command ui draws the frame of ui/ui.c around what the shell writes.     *)
(***************************************************************************)
EXTENDS Integers, Sequences

CONSTANTS
  VGA_WIDTH, VGA_HEIGHT,
  TabStop,        \* 8
  BUFFER_SIZE, MAX_ARGS,
  scancode_map,   \* the characters of scan codes, from code 0 on
  ScanCodes,      \* the codes the controller delivers, break codes included
  BreakBit,       \* 0x80
  Chars,          \* the values of a char
  Printable,      \* the characters c with 32 <= c < 127
  Welcome,        \* what kmain has written when it starts the shell
  PromptText,
  Handlers,       \* the command table: the kind of handler of each name
  Outputs,        \* what commands other than echo and clear may write
  Leftovers,      \* the bytes that may follow a line without a final zero
  UiOn, UiOff,    \* the arguments of ui
  UiTitle, UiStatus, UiContent,   \* what the frame shows
  UI_CONTENT_ROWS

Nl == "newline"
Bs == "backspace"
Tab == "tab"
Space == " "

ASSUME TerminalAssumption ==
  /\ VGA_WIDTH \in Nat \ {0} /\ VGA_HEIGHT \in Nat \ {0} /\ TabStop \in Nat \ {0}
  /\ UI_CONTENT_ROWS \in Nat \ {0}
  /\ BUFFER_SIZE \in Nat \ {0, 1} /\ MAX_ARGS \in Nat \ {0}
  /\ Space \in Printable /\ {Nl, Bs, Tab} \cap Printable = {}
  /\ Printable \subseteq Chars /\ {Nl, Bs, Tab, "?", "!", "u"} \subseteq Chars
  /\ {Welcome, PromptText, UiTitle, UiStatus, UiContent} \subseteq Seq(Chars)
  /\ Outputs \subseteq Seq(Chars) /\ Leftovers \subseteq Seq(Chars)
  /\ \A k \in 1 .. Len(PromptText) : PromptText[k] \notin {Nl, Bs, Tab}

VARIABLES
  vga,      \* cursor_x, cursor_y, the cells by offset, and, for the
            \* properties, the rows scrolled since the last prompt
  phase,    \* where the shell is
  buffer,   \* the characters before pos
  argv,
  content_lines,   \* the lines ui_print_content has filled
  start,    \* for the properties: the offset at which the line began
  strayed   \* for the properties: a backspace could not go back a row

tvars == <<vga, phase, buffer, argv, content_lines, start, strayed>>

Cells == 0 .. VGA_WIDTH * VGA_HEIGHT - 1
Offset(v) == v.y * VGA_WIDTH + v.x

-----------------------------------------------------------------------------
(* The screen.                                                             *)

\* The count of rows stops at a bound that a line reaches only by straying.
RowsBound == VGA_HEIGHT + (BUFFER_SIZE \div VGA_WIDTH)

\* Fault: the copy stops a row early.
ScrollLeavesRow(v) ==
  [x |-> v.x, y |-> VGA_HEIGHT - 1, rows |-> IF v.rows < RowsBound THEN v.rows + 1 ELSE v.rows,
   cell |-> [p \in Cells |-> IF p + 2 * VGA_WIDTH \in Cells THEN v.cell[p + VGA_WIDTH]
                             ELSE IF p + VGA_WIDTH \in Cells THEN v.cell[p] ELSE Space]]

vga_scroll_down(v) ==
  [x |-> v.x, y |-> VGA_HEIGHT - 1, rows |-> IF v.rows < RowsBound THEN v.rows + 1 ELSE v.rows,
   cell |-> [p \in Cells |-> IF p + VGA_WIDTH \in Cells THEN v.cell[p + VGA_WIDTH] ELSE Space]]

Placed(v, c) ==
  CASE c = Nl -> [v EXCEPT !.x = 0, !.y = @ + 1]
    [] c = Tab -> [v EXCEPT !.x = ((@ + TabStop) \div TabStop) * TabStop]
    [] c = Bs -> LET w == [v EXCEPT !.x = IF @ > 0 THEN @ - 1 ELSE @]
                 IN [w EXCEPT !.cell[Offset(w)] = Space]
    [] OTHER -> [v EXCEPT !.cell[Offset(v)] = c, !.x = @ + 1]

\* Fault: a full row is noticed one character late.
WrappedLate(v) == IF v.x > VGA_WIDTH THEN [v EXCEPT !.x = 0, !.y = @ + 1] ELSE v

Wrapped(v) == IF v.x >= VGA_WIDTH THEN [v EXCEPT !.x = 0, !.y = @ + 1] ELSE v

vga_write_char(v, c) ==
  LET w == Wrapped(Placed(v, c)) IN IF w.y >= VGA_HEIGHT THEN vga_scroll_down(w) ELSE w

vga_write_string(v, s) ==
  LET after[k \in 0 .. Len(s)] == IF k = 0 THEN v ELSE vga_write_char(after[k - 1], s[k])
  IN after[Len(s)]

vga_clear_screen(v) == [x |-> 0, y |-> 0, rows |-> v.rows, cell |-> [p \in Cells |-> Space]]

vga_set_position(v, row, col) ==
  IF row \in 0 .. VGA_HEIGHT - 1 /\ col \in 0 .. VGA_WIDTH - 1
    THEN [v EXCEPT !.y = row, !.x = col] ELSE v

-----------------------------------------------------------------------------
(* The frame.  Its functions give vga_set_position the column first: the   *)
(* prompt that belongs to the last row goes to the first, and a place with *)
(* no such row is ignored.                                                 *)

ui_draw_header(v) ==
  vga_write_string(vga_set_position(v, 0, 0),
                   [k \in 1 .. VGA_WIDTH |-> IF k <= Len(UiTitle) THEN UiTitle[k] ELSE Space])

ui_draw_footer(v) == vga_write_string(vga_set_position(v, 0, VGA_HEIGHT - 1), PromptText)

ui_enable(v) == ui_draw_footer(ui_draw_header(vga_clear_screen(v)))

\* The status, meant for column 60, follows the title: there is no row 60.
ui_update_header(v) ==
  LET titled == vga_write_string(vga_set_position(v, 0, 0), UiTitle)
  IN vga_write_string(vga_set_position(titled, 60, 0), UiStatus)

\* A row beyond the content asks for ui_scroll_content, which does nothing
\* while content_lines < UI_CONTENT_ROWS, that is always.
ui_print_content(v, lines) ==
  LET row == IF 1 + lines >= VGA_HEIGHT - 1 THEN VGA_HEIGHT - 2 ELSE 1 + lines
      shown == IF Len(UiContent) < VGA_WIDTH THEN Len(UiContent) ELSE VGA_WIDTH
  IN vga_write_string(vga_set_position(v, 0, row), SubSeq(UiContent, 1, shown))

LinesAfter(lines) == IF lines + 1 >= UI_CONTENT_ROWS THEN UI_CONTENT_ROWS - 1 ELSE lines + 1

-----------------------------------------------------------------------------
(* Splitting a line.  The state of the loop: the arguments found, where    *)
(* the current one starts, and the character looked at.                    *)

isspace(c) == c \in {Space, Tab, Nl}

\* Fault: the loop looks for one argument more than argv has room for.
OneTooMany(s) == Len(s.argv) <= MAX_ARGS

ArgsLeft(s) == Len(s.argv) < MAX_ARGS

Argument(s, line) ==
  IF s.start < s.token THEN Append(s.argv, SubSeq(line, s.start, s.token - 1)) ELSE s.argv

ParseStep(s, line, c) ==
  CASE ~ArgsLeft(s) -> s
    [] ArgsLeft(s) /\ isspace(c) ->
         [argv |-> Argument(s, line), start |-> s.token + 1, token |-> s.token + 1]
    [] OTHER -> [s EXCEPT !.token = @ + 1]

parse_command(line) ==
  LET after[k \in 0 .. Len(line)] ==
        IF k = 0 THEN [argv |-> <<>>, start |-> 1, token |-> 1]
        ELSE ParseStep(after[k - 1], line, line[k])
  IN Argument(after[Len(line)], line)

-----------------------------------------------------------------------------
(* The shell.                                                              *)

Blank == [x |-> 0, y |-> 0, rows |-> 0, cell |-> [p \in Cells |-> Space]]

TerminalInit ==
  /\ vga = vga_write_string(Blank, Welcome)
  /\ phase = "prompt"
  /\ buffer = <<>> /\ argv = <<>>
  /\ content_lines = 0
  /\ start = 0 /\ strayed = FALSE

Prompt ==
  LET v == vga_write_string(vga, PromptText)
  IN /\ phase = "prompt"
     /\ vga' = [v EXCEPT !.rows = 0]
     /\ phase' = "input"
     /\ buffer' = <<>> /\ argv' = <<>>
     /\ start' = Offset(v) /\ strayed' = FALSE
     /\ UNCHANGED content_lines

\* keyboard_read_char returns c; it goes on polling on any other code.
keyboard_read_char(c) ==
  \E code \in ScanCodes :
    code < BreakBit /\ code < Len(scancode_map) /\ c = scancode_map[code + 1]

\* What follows the loop that reads a line.
Submit(line) ==
  /\ argv' = parse_command(line)
  /\ phase' = IF argv' = <<>> THEN "prompt" ELSE "run"

Enter ==
  /\ phase = "input" /\ keyboard_read_char(Nl)
  /\ vga' = vga_write_char(vga, Nl)
  /\ Submit(buffer)
  /\ UNCHANGED <<buffer, content_lines, start, strayed>>

\* Fault: an empty line can be erased too.
EraseAlways ==
  /\ phase = "input" /\ keyboard_read_char(Bs)
  /\ buffer' = SubSeq(buffer, 1, Len(buffer) - 1)
  /\ vga' = vga_write_char(vga, Bs)
  /\ strayed' = (strayed \/ vga.x = 0)
  /\ UNCHANGED <<phase, argv, content_lines, start>>

Erase ==
  /\ phase = "input" /\ keyboard_read_char(Bs)
  /\ buffer # <<>>
  /\ buffer' = SubSeq(buffer, 1, Len(buffer) - 1)
  /\ vga' = vga_write_char(vga, Bs)
  /\ strayed' = (strayed \/ vga.x = 0)
  /\ UNCHANGED <<phase, argv, content_lines, start>>

\* The character that fills the buffer ends the loop without storing a zero
\* behind it, so that the line goes on with whatever memory holds there.
Type(c) ==
  /\ phase = "input" /\ keyboard_read_char(c) /\ c \in Printable
  /\ buffer' = Append(buffer, c)
  /\ vga' = vga_write_char(vga, c)
  /\ IF Len(buffer') = BUFFER_SIZE - 1
       THEN \E rest \in Leftovers : Submit(buffer' \o rest)
       ELSE UNCHANGED <<phase, argv>>
  /\ UNCHANGED <<content_lines, start, strayed>>

\* What a command writes.
Echoed ==
  LET after[k \in 0 .. Len(argv)] ==
        IF k < 2 THEN <<>>
        ELSE after[k - 1] \o argv[k] \o (IF k < Len(argv) THEN <<Space>> ELSE <<>>)
  IN after[Len(argv)] \o <<Nl>>

Handler == IF argv[1] \in DOMAIN Handlers THEN Handlers[argv[1]] ELSE "unknown"

RunEcho == Handler = "echo" /\ vga' = vga_write_string(vga, Echoed) /\ phase' = "prompt"
RunClear == Handler = "clear" /\ vga' = vga_clear_screen(vga) /\ phase' = "prompt"
RunOther ==
  /\ Handler = "other"
  /\ \E text \in Outputs : vga' = vga_write_string(vga, text)
  /\ phase' = "prompt"
RunUnknown ==
  /\ Handler = "unknown"
  /\ vga' = vga_write_string(vga, <<"?">> \o argv[1] \o <<Nl>>)
  /\ phase' = "prompt"

\* cmd_ui: on, off, and what only writes.
RunUiOn ==
  /\ Handler = "ui" /\ Len(argv) > 1 /\ argv[2] = UiOn
  /\ vga' = ui_draw_footer(ui_print_content(ui_update_header(ui_enable(vga)), content_lines))
  /\ content_lines' = LinesAfter(content_lines)
  /\ phase' = "prompt"
RunUiOff ==
  /\ Handler = "ui" /\ Len(argv) > 1 /\ argv[2] = UiOff
  /\ vga' = vga_write_string(vga_clear_screen(vga), <<"u", Nl>>)
  /\ phase' = "prompt"
RunUiWrites ==
  /\ Handler = "ui" /\ (Len(argv) > 1 => argv[2] \notin {UiOn, UiOff})
  /\ vga' = vga_write_string(vga, <<"u", Nl>>)
  /\ phase' = "prompt"

kernel_panic(v) == vga_write_string(v, <<Nl, "!", Nl>>)

\* exit makes shell_main return, and kmain panics and halts the processor.
RunExit == Handler = "exit" /\ vga' = kernel_panic(vga) /\ phase' = "halted"

\* The line and its arguments are not used again.
Run ==
  /\ phase = "run"
  /\ \/ RunUiOn
     \/ /\ RunEcho \/ RunClear \/ RunOther \/ RunUnknown \/ RunUiOff \/ RunUiWrites \/ RunExit
        /\ UNCHANGED content_lines
  /\ buffer' = <<>> /\ argv' = <<>>
  /\ UNCHANGED <<start, strayed>>

TerminalNext == Prompt \/ Enter \/ Erase \/ (\E c \in Printable : Type(c)) \/ Run

TerminalSpec == TerminalInit /\ [][TerminalNext]_tvars

-----------------------------------------------------------------------------
(* Properties.                                                             *)

TerminalTypeOK ==
  /\ vga \in [x : 0 .. VGA_WIDTH - 1, y : 0 .. VGA_HEIGHT - 1, rows : 0 .. RowsBound,
             cell : [Cells -> Chars]]
  /\ phase \in {"prompt", "input", "run", "halted"}
  /\ Len(buffer) < BUFFER_SIZE /\ buffer \in Seq(Printable)
  /\ argv \in Seq(Seq(Chars))
  /\ start \in Cells /\ strayed \in BOOLEAN
  /\ content_lines \in 0 .. UI_CONTENT_ROWS - 1

\* Where the line starts now that the screen has scrolled; before the
\* screen, that is negative, when its first row has scrolled away.
LineStart == start - VGA_WIDTH * vga.rows

\* The screen and the buffer agree: while a line is edited, across wraps
\* and scrolling, its characters are in the cells from where it began to
\* the cursor, unless a backspace at the left edge, which vga_write_char
\* does not take to the row above, has parted the two.
EchoIsTheLine ==
  phase = "input" /\ ~strayed =>
    /\ Offset(vga) = LineStart + Len(buffer)
    /\ \A k \in 1 .. Len(buffer) :
         LineStart + k - 1 >= 0 => vga.cell[LineStart + k - 1] = buffer[k]

\* However a line is edited, strayed backspaces included, the prompt before
\* it is not erased.
PromptIntact ==
  phase = "input" =>
    \A k \in 1 .. Len(PromptText) :
      LET p == LineStart - Len(PromptText) + k - 1
      IN p >= 0 => vga.cell[p] = PromptText[k]

\* A word of a line, a maximal stretch without white space, from i to j.
IsWord(line, i, j) ==
  /\ i <= j /\ \A k \in i .. j : ~isspace(line[k])
  /\ i = 1 \/ isspace(line[i - 1])
  /\ j = Len(line) \/ isspace(line[j + 1])

\* Where the words of a line are.
Spans(line) == {w \in (1 .. Len(line)) \X (1 .. Len(line)) : IsWord(line, w[1], w[2])}

\* args are the first words of a line, in order: all of them, or as many as
\* argv has room for.
AreFirstWords(args, line) ==
  \E at \in [1 .. Len(args) -> Spans(line)] :
    /\ \A k \in 1 .. Len(args) : args[k] = SubSeq(line, at[k][1], at[k][2])
    /\ \A k \in 2 .. Len(args) : at[k - 1][2] < at[k][1]
    /\ \A w \in Spans(line) :
         \/ \E k \in 1 .. Len(args) : at[k] = w
         \/ Len(args) = MAX_ARGS /\ at[MAX_ARGS][2] < w[1]

\* For every line ended by Enter parse_command yields its words, at most
\* MAX_ARGS of them: argv never gets more entries than it has room for,
\* although the last one is stored after the loop that checks.
ArgsAreTheWords ==
  phase = "run" =>
    /\ Len(argv) <= MAX_ARGS
    /\ Len(buffer) < BUFFER_SIZE - 1 => AreFirstWords(argv, buffer)
=============================================================================
