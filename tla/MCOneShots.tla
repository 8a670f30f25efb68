------------------------------ MODULE MCOneShots ------------------------------
(* A small instance of OneShots: see the cfg file.  Chassis are given serial     *)
(* numbers that take each field through all its values, its bits for a           *)
(* character, beside two settings of the other fields.                           *)
EXTENDS OneShots, Sequences

LowSerial ==
  [country |-> "AU", year |-> 41, week |-> 1, product |-> <<0, 0>>, sequence |-> <<0, 0>>]
HighSerial ==
  [country |-> "US", year |-> 72, week |-> 53, product |-> <<78, 50>>, sequence |-> <<90, 127>>]

Characters == {0, 1, 2, 4, 8, 16, 32, 64, 127}
Codes      == {"AU", "CA", "CN", "DE", "HK", "IN", "JP", "KR", "MY", "SG", "TW", "UK", "US"}

SerialNumbers ==
  UNION {  {[s EXCEPT !.country = c] : c \in Codes}
      \cup {[s EXCEPT !.year = y] : y \in 41..72}
      \cup {[s EXCEPT !.week = w] : w \in 1..53}
      \cup {[s EXCEPT !.product[i] = c] : i \in 1..2, c \in Characters}
      \cup {[s EXCEPT !.sequence[i] = c] : i \in 1..2, c \in Characters}
    : s \in {LowSerial, HighSerial}}

\* Too short, too long, all ones, all zeros, a country that there is not.
OddReports ==
  [prefixed : BOOLEAN,
   digits : {[k \in 1..9 |-> 7], [k \in 1..12 |-> 15], [k \in 1..11 |-> 15],
             [k \in 1..12 |-> 0], [k \in 1..11 |-> 1]}]
=============================================================================
