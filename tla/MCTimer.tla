------------------------------ MODULE MCTimer ------------------------------
(***************************************************************************)
(* The gated channel 2 with digits of three values: a byte is one digit,   *)
(* a count runs from 1 to 9, or to 4 in decimal.                           *)
(***************************************************************************)
EXTENDS Timer

MCWords ==
  [ch : {2}, rw : {3}, mode : {0, 2, 3, 4}, bcd : {FALSE}]
    \cup {[ch |-> 2, rw |-> 1, mode |-> 7, bcd |-> FALSE],
          [ch |-> 2, rw |-> 2, mode |-> 1, bcd |-> FALSE],
          [ch |-> 2, rw |-> 2, mode |-> 5, bcd |-> TRUE],
          [ch |-> 2, rw |-> 3, mode |-> 2, bcd |-> TRUE],
          [ch |-> 2, rw |-> 0, mode |-> 0, bcd |-> FALSE]}

=============================================================================
