------------------------------ MODULE Terminal ------------------------------
(***************************************************************************)
(* What keys are read as (devices/kbd.c) and what characters look like on  *)
(* the screen (devices/vga.c).  Characters are their ASCII codes.          *)
(***************************************************************************)
EXTENDS Integers, Sequences, SequencesExt

CONSTANTS COL_CNT, ROW_CNT      \* columns and rows of the screen: 80 and 25

-----------------------------------------------------------------------------
(* The keyboard.  A key is its scancode, a prefix 0xe0 included; what the
   handler reads is a key and whether it is let go.                         *)

invariant_keymap == <<<<1, <<27>>>>, <<14, <<8>>>>, <<15, <<9, 81, 87, 69, 82, 84, 89, 85, 73, 79, 80>>>>, <<28, <<13>>>>,
                      <<30, <<65, 83, 68, 70, 71, 72, 74, 75, 76>>>>, <<44, <<90, 88, 67, 86, 66, 78, 77>>>>,
                      <<55, <<42>>>>, <<57, <<32>>>> >>
unshifted_keymap == <<<<2, <<49, 50, 51, 52, 53, 54, 55, 56, 57, 48, 45, 61>>>>, <<26, <<91, 93>>>>, <<39, <<59, 39, 96>>>>,
                      <<43, <<92>>>>, <<51, <<44, 46, 47>>>> >>
shifted_keymap == <<<<2, <<33, 64, 35, 36, 37, 94, 38, 42, 40, 41, 95, 43>>>>, <<26, <<123, 125>>>>, <<39, <<58, 34, 126>>>>,
                    <<43, <<124>>>>, <<51, <<60, 62, 63>>>> >>

\* The characters a key has in a table: one or none.
map_key(k, code) == {k[j][2][code - k[j][1] + 1] : j \in {i \in DOMAIN k : code - k[i][1] + 1 \in DOMAIN k[i][2]}}

Shift == {42, 54}
Alt == {56, 57400}
Ctrl == {29, 57373}
CapsLock == 58

tolower(c) == IF c \in 65..90 THEN c + 32 ELSE c

\* s.down: the shift keys taken to be held; s.chars: what went into the input buffer.
keyboard_interrupt(s, e) ==
    LET shift == s.down \cap Shift # {}
        mapped == map_key(invariant_keymap, e.code) \cup map_key(IF shift THEN shifted_keymap ELSE unshifted_keymap, e.code)
        c == CHOOSE ch \in mapped : TRUE
        cased == IF s.down \cap Ctrl # {} /\ c \in 64..95 THEN c - 64
                 ELSE IF shift = s.caps_lock THEN tolower(c) ELSE c
        alt == IF s.down \cap Alt # {} THEN 128 ELSE 0
    IN  IF e.code = CapsLock THEN IF e.release THEN s ELSE [s EXCEPT !.caps_lock = ~@]
        ELSE IF mapped # {} THEN IF e.release THEN s ELSE [s EXCEPT !.chars = Append(@, cased + alt)]
        ELSE IF e.code \in Shift \cup Alt \cup Ctrl
        THEN [s EXCEPT !.down = IF e.release THEN @ \ {e.code} ELSE @ \cup {e.code}]
        ELSE s

Keyboard == [down |-> {}, caps_lock |-> FALSE, chars |-> <<>>]

-----------------------------------------------------------------------------
(* The screen: fb[y][x] is the character in column x of row y.              *)

Row == [x \in 0..(COL_CNT - 1) |-> 32]
cls == [cx |-> 0, cy |-> 0, fb |-> [y \in 0..(ROW_CNT - 1) |-> Row]]

\* Behind the last row every row moves up by one.
newline(s) ==
    IF s.cy + 1 < ROW_CNT THEN [s EXCEPT !.cx = 0, !.cy = s.cy + 1]
    ELSE [s EXCEPT !.cx = 0, !.fb = [y \in 0..(ROW_CNT - 1) |-> IF y = ROW_CNT - 1 THEN Row ELSE s.fb[y + 1]]]

NextStop(x) == 8 * (x \div 8 + 1)

vga_putc(s, c) ==
    LET at(x) == IF x >= COL_CNT THEN newline(s) ELSE [s EXCEPT !.cx = x]
        drawn == [s EXCEPT !.fb[s.cy][s.cx] = c]
    IN  CASE c = 10 -> newline(s)
          [] c = 12 -> cls
          [] c = 8  -> [s EXCEPT !.cx = IF s.cx > 0 THEN s.cx - 1 ELSE 0]
          [] c = 13 -> [s EXCEPT !.cx = 0]
          [] c = 9  -> at(NextStop(s.cx))
          [] OTHER  -> IF s.cx + 1 >= COL_CNT THEN newline(drawn) ELSE [drawn EXCEPT !.cx = s.cx + 1]
=============================================================================
