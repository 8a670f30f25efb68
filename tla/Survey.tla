------------------------------- MODULE Survey -------------------------------
(***************************************************************************)
(* tcl/get_cisco_ixn2x_info.tcl: a survey of a list of IxN2X controllers,  *)
(* one after the other, and the decoding of their chassis' serial numbers. *)
(* Calls to the controllers are external; some are caught when they fail,  *)
(* an error of any other ends the script.                                  *)
(*                                                                         *)
(* A serial number is written in 44 bits: the country in 5, the year in 5, *)
(* the week in 6, and four 7-bit characters, two of the product and two of *)
(* the sequence.  A chassis reports it in hexadecimal, with or without 0x  *)
(* and with any number of leading zeros; an XM chassis reports it as text. *)
(* A number is its digits, most significant first; texts are abstracted.   *)
(***************************************************************************)
EXTENDS Integers, Sequences, FiniteSetsExt

CONSTANTS
  Controllers,   \* length of controllerList
  Reports,       \* hexadecimal reports of the chassis, see Report
  Made           \* serial numbers given to chassis, see SerialNumber

VARIABLES
  ctrl,      \* the controller the loop is at
  step,      \* the part of its survey the script is at
  section,   \* section[c]: what the file says of controller c
  made,      \* serial number of the chassis the loop is at (no variable of the code)
  serial,    \* what DecodeSerialNumber has made of what the chassis reports
  script     \* "runs", "ended", or "died" of an error nobody catches

vars == <<ctrl, step, section, made, serial, script>>

-----------------------------------------------------------------------------
(* DecodeSerialNumber *)

Nibble == 0..15

\* amcCountryCode, in decimal
Countries == <<"AU", "CA", "CN", "DE", "HK", "IN", "JP", "KR", "MY", "SG", "TW", "UK", "US">>
CountryCode == <<1, 3, 5, 8, 10, 11, 16, 17, 19, 24, 26, 30, 31>>

SerialNumber ==
  [country : {Countries[i] : i \in 1..13}, year : 41..72, week : 0..63,
   product : (0..127) \X (0..127), sequence : (0..127) \X (0..127)]

Report == [prefixed : BOOLEAN, digits : Seq(Nibble)]

Error(e) == [error |-> e]
Hex(prefixed, digits) == [prefixed |-> prefixed, digits |-> digits]
Text(t) == [text |-> t]          \* "XM...", or something else such as "N/A"

\* string trimleft
TrimLeft(s) ==
  LET nonzero == {k \in 1..Len(s) : s[k] # 0} IN
  IF nonzero = {} THEN << >> ELSE SubSeq(s, Min(nonzero), Len(s))

Power == <<1, 2, 4, 8, 16, 32, 64>>

\* n in w bits
Bits(n, w) == [k \in 1..w |-> (n \div Power[w - k + 1]) % 2]

ConvertBinStringToDec(bits) ==
  LET value[k \in 0..Len(bits)] == IF k = 0 THEN 0 ELSE 2 * value[k - 1] + bits[k]
  IN value[Len(bits)]

\* Nothing but zeros have been trimmed off an empty number: it becomes one zero.
ConvertHexStringToBin(digits) ==
  IF digits = << >> THEN <<0>>
  ELSE [j \in 1..(4 * Len(digits)) |->
          Bits(digits[((j - 1) \div 4) + 1], 4)[((j - 1) % 4) + 1]]

\* Seeded bugs, here and below: PROJECT.json says which definition each replaces.
BugPad(bits) == bits \o [k \in 1..(44 - Len(bits)) |-> 0]   \* padded at the end

Pad(bits) == [k \in 1..(44 - Len(bits)) |-> 0] \o bits

Field(bits, from, to) == ConvertBinStringToDec(SubSeq(bits, from + 1, to + 1))

Fields(bits) ==
  LET found == {i \in 1..13 : CountryCode[i] = Field(bits, 0, 4)} IN
  IF found = {} THEN Error("0")
  ELSE [country  |-> Countries[CHOOSE i \in found : TRUE],
        year     |-> Field(bits, 5, 9) + 2001 - 1960,
        week     |-> Field(bits, 10, 15),
        product  |-> <<Field(bits, 16, 22), Field(bits, 23, 29)>>,
        sequence |-> <<Field(bits, 30, 36), Field(bits, 37, 43)>>]

AllOnes == [k \in 1..11 |-> 15]

\* 0xfffffffffff is compared as a number, since both sides look like one.
DecodeSerialNumber(a) ==
  CASE "text" \in DOMAIN a -> IF a.text = "XM" THEN a ELSE Error("Invalid")
    [] "digits" \in DOMAIN a ->
       IF Len(a.digits) < 10 \/ (a.prefixed /\ TrimLeft(a.digits) = AllOnes)
       THEN Error("Invalid")
       ELSE LET bits == ConvertHexStringToBin(TrimLeft(a.digits)) IN
            IF Len(bits) > 44 THEN Error("0") ELSE Fields(Pad(bits))

-----------------------------------------------------------------------------
(* How chassis report their serial numbers, for reference *)

\* The 44 bits of a serial number.
Code(s) ==
  Bits(CountryCode[CHOOSE i \in 1..13 : Countries[i] = s.country], 5)
    \o Bits(s.year - 41, 5) \o Bits(s.week, 6)
    \o Bits(s.product[1], 7) \o Bits(s.product[2], 7)
    \o Bits(s.sequence[1], 7) \o Bits(s.sequence[2], 7)

\* They are given as hexadecimal digits.
Encoded(s) == [k \in 1..11 |-> ConvertBinStringToDec(SubSeq(Code(s), 4 * k - 3, 4 * k))]

\* With zeros in front of it, as it is, or without its own leading zeros.
Written(s) ==
  {Hex(p, d) : p \in BOOLEAN,
               d \in {<<0, 0, 0, 0, 0>> \o Encoded(s), Encoded(s), TrimLeft(Encoded(s))}}

-----------------------------------------------------------------------------
(* The script *)

None == Text("none")
Steps == {"version", "system", "licenses", "chassis", "cards", "sessions"}
Sections == {"none", "unreachable", "begun", "complete"}

TypeOK ==
  /\ ctrl \in 1..(Controllers + 1)
  /\ step \in Steps
  /\ section \in [1..Controllers -> Sections]
  /\ made \in Made \cup {None}
  /\ "text" \in DOMAIN serial \/ "error" \in DOMAIN serial \/ serial \in SerialNumber
  /\ script \in {"runs", "ended", "died"}

Init ==
  /\ ctrl = 1
  /\ step = "version"
  /\ section = [c \in 1..Controllers |-> "none"]
  /\ made = None /\ serial = None
  /\ script \in {"runs", "died"}     \* died: the log file cannot be opened

At(s) == script = "runs" /\ ctrl <= Controllers /\ step = s

\* The section of this controller ends like this, and the next one is begun.
NextController(how) ==
  /\ section' = [section EXCEPT ![ctrl] = how]
  /\ ctrl' = ctrl + 1
  /\ step' = "version"
  /\ made' = None /\ serial' = None
  /\ UNCHANGED script

BugUnreachable ==                  \* break for continue
  /\ At("version")
  /\ section' = [section EXCEPT ![ctrl] = "unreachable"]
  /\ script' = "ended"
  /\ UNCHANGED <<ctrl, step, made, serial>>

Unreachable ==
  /\ At("version")
  /\ NextController("unreachable")

Reached ==
  /\ At("version")
  /\ section' = [section EXCEPT ![ctrl] = "begun"]
  /\ step' = "system"
  /\ UNCHANGED <<ctrl, made, serial, script>>

\* An error that nobody catches: of AgtSetServerHostname or GetSystemId (lines 50, 58),
\* of the list that a caught error message is taken for and may not be (70, 74, 274,
\* 288), or of a call about cards, versions or sessions (295-317).
Dies ==
  /\ At(step)
  /\ script' = "died"
  /\ UNCHANGED <<ctrl, step, section, made, serial>>

After == [system |-> "licenses", licenses |-> "chassis", chassis |-> "cards", cards |-> "sessions"]

\* This part is written.  After a caught failure it lists the words of the error message,
\* if they make a list.
Goes ==
  /\ At(step) /\ step \in DOMAIN After
  /\ step' = After[step]
  /\ made' = None /\ serial' = None
  /\ UNCHANGED <<ctrl, section, script>>

\* One more chassis, of a known serial number or any report; N/A when the call fails.
Chassis ==
  /\ At("chassis")
  /\ serial = None
  /\ \/ \E s \in Made : made' = s /\ \E a \in Written(s) : serial' = DecodeSerialNumber(a)
     \/ /\ made' = None
        /\ \E a \in Reports \cup {Text("XM"), Text("N/A")} : serial' = DecodeSerialNumber(a)
  /\ UNCHANGED <<ctrl, step, section, script>>

NextChassis ==
  /\ At("chassis")
  /\ serial # None
  /\ made' = None /\ serial' = None
  /\ UNCHANGED <<ctrl, step, section, script>>

Complete ==
  /\ At("sessions")
  /\ NextController("complete")

Close ==
  /\ script = "runs" /\ ctrl > Controllers
  /\ script' = "ended"
  /\ UNCHANGED <<ctrl, step, section, made, serial>>

Progress == Unreachable \/ Reached \/ Dies \/ Goes \/ Complete \/ Close

Next == Progress \/ Chassis \/ NextChassis

Spec == Init /\ [][Next]_vars

-----------------------------------------------------------------------------
(* Properties *)

\* A chassis is shown with the serial number it was given, in whichever form it reports
\* it, leading zeros or not (lines 195-265).
ShowsSerialNumbers ==
  made # None => serial = made

\* What an error costs.  One that is caught costs no controller its section: when the
\* script ends, all are closed.  One that nobody catches costs its controller the rest
\* of its section and all controllers behind it theirs, but none before it (lines 49-58,
\* 295-321).
OnlyTheRestIsLost ==
  LET closed == {c \in 1..Controllers : section[c] \in {"unreachable", "complete"}} IN
  /\ closed = 1..(ctrl - 1)
  /\ \A c \in 1..Controllers : c > ctrl => section[c] = "none"
  /\ script = "ended" => closed = 1..Controllers
=============================================================================
