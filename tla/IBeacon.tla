------------------------------ MODULE IBeacon ------------------------------
(***************************************************************************)
(* src/src/ibeacon/ibeacon.c: a run of the program from its defaults over  *)
(* the options of its command line, one at a time, to the HCI device,      *)
(* which it opens, describes and closes.                                   *)
(*                                                                         *)
(* An argument is known by what the program makes of it: a number by what  *)
(* strtol or strtod returns (0 for a text that is no number), a string by  *)
(* its length; a UUID is read one character at a time.  BlueZ is external: *)
(* each of its calls may fail.                                             *)
(*                                                                         *)
(* A definition marked "mutant" is the one after it with a bug put in; the *)
(* specification does not use it.                                          *)
(***************************************************************************)
EXTENDS Integers, SequencesExt

CONSTANTS
  Limit,       \* the largest mode, hci, major and minor: 255, 65535
  Wide,        \* the values of a uint32_t: 2^32
  Number,      \* numbers in arguments
  Length,      \* sizes of the fields name, password and serial: 32, 4, 5
  Default,     \* the default numbers, and the lengths of the default strings
  Random,      \* what getrandom may give for a UUID
  UuidBytes,   \* 16
  Nibble,      \* values of a hexadecimal digit: 16
  MaxText,     \* bound: characters of a UUID in an argument
  MaxOptions   \* bound: options of a command line

ASSUME IBeaconAssumption ==
  /\ Limit \in [{"mode", "hci", "major", "minor"} -> Nat]
  /\ Length \in [{"name", "password", "serial"} -> Nat]
  /\ {Wide, UuidBytes, Nibble, MaxText, MaxOptions} \subseteq Nat \ {0}
  /\ Number \subseteq Int
  /\ Random \subseteq [0 .. UuidBytes - 1 -> 0 .. Nibble * Nibble - 1]

\* The default name has room for its final NUL.
ASSUME DefaultAssumption ==
  /\ \A field \in DOMAIN Limit \cup DOMAIN Length \cup {"advertize", "tx_power"} :
       Default[field] \in Int
  /\ Default["name"] \in 0 .. Length["name"] - 1

Required == {"major", "minor"}
Numbers == DOMAIN Limit \cup {"advertize"}
Strings == DOMAIN Length
NumberText == [erange : BOOLEAN, value : Number]
StringText == 0 .. (1 + Max({Length[field] : field \in Strings}))

\* A character of a UUID is a digit, a separator (':' or '-') or another one.
Digit == 0 .. Nibble - 1

VARIABLES
  phase,     \* "options", "uuid", "open", "clean_up" or "exited"
  settings,  \* ibeacon_settings
  parser,    \* i, j and k of the loop over the characters of a UUID
  is_set,    \* major_is_set and minor_is_set
  extra,     \* the command line has an argument that is no option
  hci_desc,  \* -1, or the descriptor of the device
  status,    \* what main returns
  started,   \* ib_open_hci returned 0 to main
  opened,    \* kernel: descriptors of HCI devices that are open
  given,     \* history: the last argument taken of each option
  count      \* options read so far

vars == <<phase, settings, parser, is_set, extra, hci_desc, status, started, opened, given, count>>
hciVars == <<hci_desc, started, opened>>

-----------------------------------------------------------------------------
\* The bytes of a string setting.  strncpy fills the name with NULs, bcopy
\* takes whatever follows the argument in memory.
Stored(field, length) ==
  [at \in 1 .. Length[field] |->
     IF at <= length THEN "text"
     ELSE IF field = "name" \/ at = length + 1 THEN "nul" ELSE "memory"]

NoText == [i |-> 0, j |-> 0, k |-> FALSE]

\* ib_set_defaults
Init ==
  /\ parser = NoText
  /\ phase = "options" /\ is_set = {} /\ extra = FALSE /\ count = 0
  /\ hci_desc = -1 /\ started = FALSE /\ opened = {} /\ status = "success"
  /\ \E uuid \in Random :
       settings = [number |-> [field \in Numbers |-> Default[field]],
                   string |-> [field \in Strings |-> Stored(field, Default[field])],
                   tx_power |-> Default["tx_power"], uuid |-> uuid]
  /\ given = [number |-> [field \in Numbers |-> Default[field]],
              string |-> [field \in Strings |-> Default[field]],
              tx_power |-> Default["tx_power"], uuid |-> << >>]

Option == phase = "options" /\ count < MaxOptions /\ count' = count + 1

Taken == Option /\ UNCHANGED <<phase, parser, extra, status, hciVars>>

\* Every "return EXIT_FAILURE" of ib_process_command_line ends the program.
Fail == phase' = "exited" /\ status' = "failure"

Rejected == Option /\ Fail /\ UNCHANGED <<settings, parser, is_set, extra, given, hciVars>>

-----------------------------------------------------------------------------
(***************************************************************************)
(* -a, -c, -i, -M and -m.  The advertising interval has no limit and is    *)
(* cut to 32 bits.                                                         *)
(***************************************************************************)
GoodNumber(field, text) ==
  /\ ~text.erange /\ text.value >= 0
  /\ field \in DOMAIN Limit => text.value <= Limit[field]

NumberOption(field, text) ==
  /\ GoodNumber(field, text)
  /\ Taken
  /\ settings' = [settings EXCEPT !.number[field] =
                    IF field = "advertize" THEN text.value % Wide ELSE text.value]
  /\ is_set' = is_set \cup (Required \cap {field})
  /\ given' = [given EXCEPT !.number[field] = text.value]

BadNumberOption(field, text) ==
  ~GoodNumber(field, text) /\ Rejected

\* -t
TxOption(text) ==
  /\ ~text.erange
  /\ Taken
  /\ settings' = [settings EXCEPT !.tx_power = text.value]
  /\ given' = [given EXCEPT !.tx_power = text.value]
  /\ UNCHANGED is_set

BadTxOption(text) == text.erange /\ Rejected

\* -n, -p and -s
GoodString(field, length) ==
  IF field = "name" THEN length < Length[field] ELSE length <= Length[field]

StringOption(field, length) ==
  /\ GoodString(field, length)
  /\ Taken
  /\ settings' = [settings EXCEPT !.string[field] = Stored(field, length)]
  /\ given' = [given EXCEPT !.string[field] = length]
  /\ UNCHANGED is_set

BadStringOption(field, length) ==
  ~GoodString(field, length) /\ Rejected

(***************************************************************************)
(* -u.  The digits of the text are put into the UUID two by two: "j" is    *)
(* the byte to put to, "k" says that it has its first digit, "i" counts    *)
(* the characters read.  Each round of the loop is an action.              *)
(***************************************************************************)
UuidOption ==
  /\ Option
  /\ phase' = "uuid" /\ parser' = NoText
  /\ given' = [given EXCEPT !.uuid = << >>]
  /\ UNCHANGED <<settings, is_set, extra, status, hciVars>>

\* The condition of the loop, when there is another character.
NextCharacter ==
  /\ phase = "uuid"
  /\ parser.i < MaxText /\ parser.j < UuidBytes

FirstDigit(char) ==
  /\ NextCharacter /\ ~parser.k
  /\ settings' = [settings EXCEPT !.uuid[parser.j] = char]
  /\ parser' = [parser EXCEPT !.i = @ + 1, !.k = TRUE]
  /\ given' = [given EXCEPT !.uuid = Append(@, char)]
  /\ UNCHANGED <<phase, is_set, extra, status, hciVars, count>>

\* The first digit is shifted within the byte and the second one added.
SecondDigit(char) ==
  /\ NextCharacter /\ parser.k
  /\ settings' = [settings EXCEPT !.uuid[parser.j] =
                    ((@ * Nibble) % (Nibble * Nibble)) + char]
  /\ parser' = [parser EXCEPT !.i = @ + 1, !.j = @ + 1, !.k = FALSE]
  /\ given' = [given EXCEPT !.uuid = Append(@, char)]
  /\ UNCHANGED <<phase, is_set, extra, status, hciVars, count>>

SkipSeparatorPerGroup ==                                                   \* mutant
  /\ NextCharacter
  /\ parser' = [parser EXCEPT !.i = @ + 1, !.k = FALSE]
  /\ UNCHANGED <<phase, settings, is_set, extra, status, hciVars, given, count>>

SkipSeparator ==
  /\ NextCharacter
  /\ parser' = [parser EXCEPT !.i = @ + 1]
  /\ UNCHANGED <<phase, settings, is_set, extra, status, hciVars, given, count>>

\* Any other character: the bytes put so far stay.
WrongCharacter ==
  /\ NextCharacter /\ Fail
  /\ UNCHANGED <<settings, parser, is_set, extra, hciVars, given, count>>

\* The text ends, or the UUID is full: what follows is not read.
EndOfUuid ==
  /\ phase = "uuid" /\ phase' = "options" /\ parser' = NoText
  /\ UNCHANGED <<settings, is_set, extra, status, hciVars, given, count>>

\* -h, -v and options that are not known
OtherOption == Rejected

-----------------------------------------------------------------------------
\* getopt_long moves what is no option behind the options.
ExtraArgument ==
  /\ phase = "options" /\ ~extra /\ extra' = TRUE
  /\ UNCHANGED <<phase, settings, parser, is_set, status, hciVars, given, count>>

\* The end of the options: what follows the loop of ib_process_command_line.
EndOfOptions ==
  /\ phase = "options"
  /\ IF extra \/ is_set # Required THEN Fail
     ELSE phase' = "open" /\ UNCHANGED status
  /\ UNCHANGED <<settings, parser, is_set, extra, hciVars, given, count>>

\* ib_open_hci: "failing" is the call of BlueZ that fails.
OpenHci(failing) ==
  /\ phase = "open"
  /\ hci_desc' = IF failing \in {"hci_devinfo", "hci_open_dev"} THEN -1 ELSE 3
  /\ opened' = opened \cup ({hci_desc'} \ {-1})
  /\ started' = (failing = "none")
  /\ phase' = "clean_up"
  /\ UNCHANGED <<settings, parser, is_set, extra, status, given, count>>

CleanUpStarted ==                                                          \* mutant
  /\ phase = "clean_up"
  /\ phase' = "exited"
  /\ opened' = IF started THEN opened \ {hci_desc} ELSE opened
  /\ UNCHANGED <<settings, parser, is_set, extra, hci_desc, status, started, given, count>>

\* ib_clean_up and the end of main
CleanUp ==
  /\ phase = "clean_up"
  /\ phase' = "exited"
  /\ opened' = opened \ {hci_desc}
  /\ UNCHANGED <<settings, parser, is_set, extra, hci_desc, status, started, given, count>>

Exited == phase = "exited" /\ UNCHANGED vars

Next ==
  \/ \E field \in Numbers, text \in NumberText :
       NumberOption(field, text) \/ BadNumberOption(field, text)
  \/ \E text \in NumberText : TxOption(text) \/ BadTxOption(text)
  \/ \E field \in Strings, length \in StringText :
       StringOption(field, length) \/ BadStringOption(field, length)
  \/ UuidOption
  \/ \E char \in Digit : FirstDigit(char) \/ SecondDigit(char)
  \/ SkipSeparator
  \/ WrongCharacter
  \/ EndOfUuid
  \/ OtherOption
  \/ ExtraArgument
  \/ EndOfOptions
  \/ \E failing \in {"hci_devinfo", "hci_open_dev", "hci_read_local_version", "none"} :
       OpenHci(failing)
  \/ CleanUp
  \/ Exited

Spec == Init /\ [][Next]_vars

-----------------------------------------------------------------------------
(***************************************************************************)
(* When the device is opened, every setting is what the last option for it *)
(* asked for, whatever other options came between and whichever arguments  *)
(* before it were longer: numbers and strings, and the bytes of the UUID   *)
(* for which two digits were read, wherever the separators stand           *)
(* (ibeacon.c:192-475).  It promises neither an interval beyond 32 bits    *)
(* (line 225) nor a UUID that is whole (line 390): the code takes both and *)
(* starts with something else.                                             *)
(***************************************************************************)
NumbersAsAsked ==
  \A field \in Numbers :
    field \in DOMAIN Limit \/ given.number[field] < Wide =>
      settings.number[field] = given.number[field]

StringsAsAsked ==
  /\ \A field \in Strings : \A at \in 1 .. Length[field] :
       settings.string[field][at] = "text" <=> at <= given.string[field]
  /\ \E at \in 1 .. Length["name"] : settings.string["name"][at] = "nul"

UuidAsAsked ==
  \A j \in 0 .. (UuidBytes - 1) :
    2 * j + 2 <= Len(given.uuid) =>
      settings.uuid[j] = given.uuid[2 * j + 1] * Nibble + given.uuid[2 * j + 2]

StartsAsAsked ==
  phase \in {"open", "clean_up"} =>
    /\ NumbersAsAsked /\ settings.tx_power = given.tx_power
    /\ StringsAsAsked /\ UuidAsAsked

(***************************************************************************)
(* The device is opened only for a command line that names major and minor *)
(* and was taken whole, and it is closed again before the program ends,    *)
(* whichever call of BlueZ fails (ibeacon.c:78-122 and 566-617).           *)
(***************************************************************************)
DeviceHandedBack ==
  /\ opened # {} => is_set = Required /\ ~extra /\ status = "success"
  /\ opened \subseteq {hci_desc}
  /\ phase = "exited" => opened = {}
=============================================================================
