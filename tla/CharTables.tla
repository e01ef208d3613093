------------------------------ MODULE CharTables ------------------------------
(***************************************************************************)
(* The character tables of src/ctype.cpp that code compiled against        *)
(* glibc's headers indexes directly, from -128 to 255.  Entries that the   *)
(* initialisers leave out are zero.                                        *)
(***************************************************************************)
EXTENDS Integers

Index == -128 .. 255
EOF == -1

Upper == 65 .. 90
Lower == 97 .. 122
Digit == 48 .. 57
Letters(first) == first .. first + 5    \* the letters that are digits in base 16
Graphic == 33 .. 126

\* The bits of ctype_b_arr, and the characters that have them.
Class == [CTRL   |-> 0 .. 31 \cup {127},
          BLANK  |-> {9, 32},
          SPACE  |-> 9 .. 13 \cup {32},
          PUNCT  |-> Graphic \ (Upper \cup Lower \cup Digit),
          DIGIT  |-> Digit,
          XDIGIT |-> Digit \cup Letters(65) \cup Letters(97),
          UPPER  |-> Upper,
          LOWER  |-> Lower,
          ALPHA  |-> Upper \cup Lower,
          PRINT  |-> Graphic \cup {32},
          GRAPH  |-> Graphic]

Classes(c) == {k \in DOMAIN Class : c \in Class[k]}

\* Entries with a character of their own; control characters have none.
Listed == 32 .. 126

\* ctype_tolower_arr.
ToLower(c) ==
    CASE c \in Upper -> c + 32
      [] c \in (Listed \ Upper) \cup {EOF} -> c
      [] OTHER -> 0

\* Mutant: the last letter forgotten.
ToUpperShort(c) ==
    CASE c \in Lower \ {122} -> c - 32
      [] c \in (Listed \ Lower) \cup {EOF, 122} -> c
      [] OTHER -> 0

\* ctype_toupper_arr.
ToUpper(c) ==
    CASE c \in Lower -> c - 32
      [] c \in (Listed \ Lower) \cup {EOF} -> c
      [] OTHER -> 0

=============================================================================
