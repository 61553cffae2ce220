------------------------------ MODULE Console ------------------------------
(***************************************************************************)
(* The text console: kernel/src/Drivers/TTY.c, and Kprintf.c as far as it  *)
(* hands characters to the stream of the TTY.  The video memory is an      *)
(* array of cells that goes on below the screen, as far as a cursor of two *)
(* bytes can reach; attributes and the blinking cursor are left out.       *)
(***************************************************************************)
EXTENDS Integers, SequencesExt

CONSTANTS
    TTYWidth, TTYHeight,
    UINT8_MAX,          \* largest row or column number
    Letters             \* characters that are shown

ASSUME ConsoleAssumption ==
    /\ TTYWidth \in Nat /\ TTYHeight \in Nat /\ UINT8_MAX \in Nat
    /\ 1 < TTYHeight /\ TTYHeight < TTYWidth /\ TTYWidth <= UINT8_MAX

VARIABLE
    tty     \* TTYState, the cells, whether the stream has its callbacks, and
            \* as history the characters typed in the current line

Blank     == " "
Backspace == "backspace"
Return    == "return"
Newline   == "newline"
Message   == "message"      \* the text of a Kprintf, which ends in a newline

Characters == Letters \cup {Message, Backspace, Return, Newline}

Cells == 0..((UINT8_MAX + 1) * TTYWidth - 1)

TTYInitial ==
    tty = [CursorX |-> 0, CursorY |-> 0, TextBuffer |-> [i \in Cells |-> Blank],
           WriteCallback |-> FALSE, line |-> <<>>]

\* TTYInit takes over the cursor, whose line counts as typed so far.
TTYOpened(pos) ==
    [tty EXCEPT !.CursorX = pos % TTYWidth, !.CursorY = pos \div TTYWidth,
                !.WriteCallback = TRUE, !.line = [i \in 1..(pos % TTYWidth) |-> Blank]]

\* The rows of the screen move up; the last one stays as well.
TTYScroll(t) ==
    [t EXCEPT !.TextBuffer = [i \in Cells |->
                  IF i < (TTYHeight - 1) * TTYWidth THEN @[i + TTYWidth] ELSE @[i]],
              !.CursorY = IF @ > 0 THEN @ - 1 ELSE @]

RowDown(t) == [t EXCEPT !.CursorY = (@ + 1) % (UINT8_MAX + 1)]

LineStart(t) == [t EXCEPT !.CursorX = 0, !.line = <<>>]

\* At the end of a row.
TTYNewLine(t) ==
    IF t.CursorY = TTYHeight - 1 THEN TTYScroll(LineStart(t))
    ELSE RowDown(LineStart(t))

\* At a newline character; the row is compared with the width.
NewlineTyped(t) ==
    IF t.CursorY = TTYWidth - 1 THEN TTYScroll(LineStart(t))
    ELSE RowDown(LineStart(t))

\* Faulty variant of Shown: the row ends one cell too late.
ShownPastEnd(t, c) ==
    LET written == [t EXCEPT
            !.TextBuffer[t.CursorY * TTYWidth + t.CursorX] = c,
            !.CursorX = @ + 1, !.line = Append(@, c)]
    IN  IF t.CursorX = TTYWidth THEN TTYNewLine(written) ELSE written

Shown(t, c) ==
    LET written == [t EXCEPT
            !.TextBuffer[t.CursorY * TTYWidth + t.CursorX] = c,
            !.CursorX = @ + 1, !.line = Append(@, c)]
    IN  IF written.CursorX = TTYWidth THEN TTYNewLine(written) ELSE written

Typed(t, c) ==
    CASE c = Backspace -> IF t.CursorX = 0 THEN t
                          ELSE [t EXCEPT !.CursorX = @ - 1, !.line = Front(@)]
      [] c = Return    -> LineStart(t)
      [] c = Newline   -> NewlineTyped(t)
      [] OTHER         -> Shown(t, c)

\* Until TTYInit has given the stream its callbacks, output is lost.
IoWrite(t, c) == IF t.WriteCallback THEN Typed(t, c) ELSE t
Kprintf(t) == IoWrite(IoWrite(t, Message), Newline)

\* A turn of TTYWrite's loop; a text is any number of turns.
TTYWrite == \E c \in Characters \ {Message} : tty' = IoWrite(tty, c)

------------------------------------------------------------------------------
(* Properties *)

TTYTypeOK ==
    tty \in [CursorX : 0..UINT8_MAX, CursorY : 0..UINT8_MAX,
             TextBuffer : [Cells -> Characters \cup {Blank}],
             WriteCallback : BOOLEAN, line : Seq(Characters \cup {Blank})]

\* The cursor stays inside its row, and the row shows what has been typed
\* since it began, corrections included, on whatever row below the screen the
\* cursor may be and however often the rows above it have moved.
LineShown ==
    /\ tty.CursorX < TTYWidth
    /\ tty.CursorX = Len(tty.line)
    /\ \A x \in 1..Len(tty.line) :
          tty.TextBuffer[tty.CursorY * TTYWidth + x - 1] = tty.line[x]
=============================================================================
