--------------------------- MODULE IBeacon_proofs ---------------------------
(***************************************************************************)
(* Proofs about module IBeacon, for all limits, arguments and command      *)
(* lines of any length: the device is opened only for a good command line, *)
(* with the settings asked for, and handed back whatever fails.            *)
(*                                                                         *)
(* The argument: what DeviceHandedBack says of an open device has to be    *)
(* known before it is opened, phase by phase; what StartsAsAsked says of   *)
(* the settings holds after every option, and of the UUID after every      *)
(* character, because the byte and the digit the parser is at always count *)
(* the digits it has been given (DigitsCounted).                           *)
(***************************************************************************)
EXTENDS IBeacon, TLAPS

Accepted == is_set = Required /\ ~extra /\ status = "success"

DeviceInv ==
  /\ phase \in {"options", "uuid", "open", "clean_up", "exited"}
  /\ phase \in {"options", "uuid", "open", "exited"} => opened = {}
  /\ phase \in {"options", "uuid"} => status = "success"
  /\ phase \in {"open", "clean_up"} => Accepted
  /\ opened \subseteq {hci_desc}

LEMMA DeviceInit == Init => DeviceInv
  BY DEF Init, DeviceInv, Accepted

\* An option that is accepted leaves the phase alone, one that is not ends it.
LEMMA DeviceOption ==
  ASSUME DeviceInv, Taken \/ Rejected
  PROVE  DeviceInv'
<1>1. CASE Taken
  BY <1>1 DEF DeviceInv, Taken, Option, hciVars, Accepted
<1>2. CASE Rejected
  BY <1>2 DEF DeviceInv, Rejected, Option, Fail, hciVars, Accepted
<1> QED
  BY <1>1, <1>2

\* Neither does reading a UUID do anything to the device.
LEMMA DeviceUuid ==
  ASSUME DeviceInv, NEW char \in Digit,
         UuidOption \/ FirstDigit(char) \/ SecondDigit(char) \/ SkipSeparator
           \/ WrongCharacter \/ EndOfUuid
  PROVE  DeviceInv'
<1>1. CASE UuidOption
  BY <1>1 DEF DeviceInv, UuidOption, Option, hciVars, Accepted
<1>2. CASE FirstDigit(char)
  BY <1>2 DEF DeviceInv, FirstDigit, NextCharacter, hciVars, Accepted
<1>3. CASE SecondDigit(char)
  BY <1>3 DEF DeviceInv, SecondDigit, NextCharacter, hciVars, Accepted
<1>4. CASE SkipSeparator
  BY <1>4 DEF DeviceInv, SkipSeparator, NextCharacter, hciVars, Accepted
<1>5. CASE WrongCharacter
  BY <1>5 DEF DeviceInv, WrongCharacter, NextCharacter, Fail, hciVars, Accepted
<1>6. CASE EndOfUuid
  BY <1>6 DEF DeviceInv, EndOfUuid, hciVars, Accepted
<1> QED
  BY <1>1, <1>2, <1>3, <1>4, <1>5, <1>6

LEMMA DigitExists == \E char : char \in Digit
<1>1. 0 \in Digit
  BY IBeaconAssumption DEF Digit
<1> QED
  BY <1>1

LEMMA DeviceStep ==
  ASSUME DeviceInv, [Next]_vars
  PROVE  DeviceInv'
<1>1. CASE \E field \in Numbers, text \in NumberText :
             NumberOption(field, text) \/ BadNumberOption(field, text)
  BY <1>1, DeviceOption DEF NumberOption, BadNumberOption
<1>2. CASE \E text \in NumberText : TxOption(text) \/ BadTxOption(text)
  BY <1>2, DeviceOption DEF TxOption, BadTxOption
<1>3. CASE \E field \in Strings, length \in StringText :
             StringOption(field, length) \/ BadStringOption(field, length)
  BY <1>3, DeviceOption DEF StringOption, BadStringOption
<1>4. CASE \E char \in Digit : FirstDigit(char) \/ SecondDigit(char)
  BY <1>4, DeviceUuid
<1>5. CASE UuidOption \/ SkipSeparator \/ WrongCharacter \/ EndOfUuid
  BY <1>5, DeviceUuid, DigitExists
<1>6. CASE OtherOption
  BY <1>6, DeviceOption DEF OtherOption
<1>7. CASE ExtraArgument
  BY <1>7 DEF ExtraArgument, DeviceInv, Accepted, hciVars
<1>8. CASE EndOfOptions
  <2>1. CASE extra \/ is_set # Required
    BY <1>8, <2>1 DEF EndOfOptions, Fail, DeviceInv, Accepted, hciVars
  <2>2. CASE ~extra /\ is_set = Required
    BY <1>8, <2>2 DEF EndOfOptions, DeviceInv, Accepted, hciVars
  <2> QED
    BY <2>1, <2>2
<1>9. CASE \E failing \in {"hci_devinfo", "hci_open_dev", "hci_read_local_version", "none"} :
             OpenHci(failing)
  <2>1. opened' = opened \cup ({hci_desc'} \ {-1}) /\ opened = {}
    BY <1>9 DEF OpenHci, DeviceInv
  <2>2. phase = "open" /\ phase' = "clean_up" /\ Accepted /\ UNCHANGED <<is_set, extra, status>>
    BY <1>9 DEF OpenHci, DeviceInv
  <2>3. opened' \subseteq {hci_desc'}
    BY <2>1
  <2> QED
    BY <2>2, <2>3 DEF DeviceInv, Accepted
<1>10. CASE CleanUp
  BY <1>10 DEF CleanUp, DeviceInv, Accepted
<1>11. CASE UNCHANGED vars
  BY <1>11 DEF vars, DeviceInv, Accepted
<1> QED
  BY <1>1, <1>2, <1>3, <1>4, <1>5, <1>6, <1>7, <1>8, <1>9, <1>10, <1>11 DEF Next, Exited

LEMMA DeviceFollows == DeviceInv => DeviceHandedBack
  BY DEF DeviceInv, DeviceHandedBack, Accepted

(***************************************************************************)
(* The device is opened only for a command line that names major and minor *)
(* and was taken whole, and it is closed before the program ends.          *)
(***************************************************************************)
THEOREM DeviceIsHandedBack == Spec => []DeviceHandedBack
<1>1. Spec => []DeviceInv
  BY DeviceInit, DeviceStep, PTL DEF Spec
<1> QED
  BY <1>1, DeviceFollows, PTL

-----------------------------------------------------------------------------
(***************************************************************************)
(* The settings.  An option changes one of them, and "given" with it.      *)
(***************************************************************************)
Contents == UNION {[1 .. Length[field] -> {"text", "nul", "memory"}] : field \in Strings}

SettingsType ==
  /\ settings \in [number : [Numbers -> Int], string : [Strings -> Contents],
                   tx_power : Int, uuid : [0 .. UuidBytes - 1 -> Int]]
  /\ given \in [number : [Numbers -> Int], string : [Strings -> Int],
                tx_power : Int, uuid : Seq(Digit)]

\* While a UUID is read, "j" and "k" count the digits, and the first digit of a
\* byte is in its place.
DigitsCounted ==
  phase = "uuid" =>
    /\ parser \in [i : Nat, j : 0 .. UuidBytes, k : BOOLEAN]
    /\ Len(given.uuid) = 2 * parser.j + (IF parser.k THEN 1 ELSE 0)
    /\ parser.k => /\ parser.j < UuidBytes
                   /\ settings.uuid[parser.j] = given.uuid[2 * parser.j + 1]

SettingsInv ==
  /\ SettingsType
  /\ NumbersAsAsked
  /\ settings.tx_power = given.tx_power
  /\ StringsAsAsked
  /\ UuidAsAsked
  /\ DigitsCounted

\* The bytes of a string are "text" as far as its length goes.
LEMMA StoredLemma ==
  ASSUME NEW field \in Strings, NEW length \in Int
  PROVE  /\ Stored(field, length) \in Contents
         /\ \A at \in 1 .. Length[field] :
              Stored(field, length)[at] = "text" <=> at <= length
<1>1. Stored(field, length) \in [1 .. Length[field] -> {"text", "nul", "memory"}]
  BY DEF Stored
<1> QED
  BY <1>1 DEF Stored, Contents

\* The name keeps its final NUL.
LEMMA NameLemma ==
  ASSUME NEW length \in Int, 0 <= length, length < Length["name"]
  PROVE  \E at \in 1 .. Length["name"] : Stored("name", length)[at] = "nul"
<1>1. Length["name"] \in Nat
  BY IBeaconAssumption
<1>2. length + 1 \in 1 .. Length["name"] /\ ~(length + 1 <= length)
  BY <1>1
<1>3. Stored("name", length)[length + 1] = "nul"
  BY <1>2 DEF Stored
<1> QED
  BY <1>2, <1>3

\* 32 bits keep what fits into them.
LEMMA ModLemma ==
  ASSUME NEW a \in Int, NEW b \in Int, 0 <= a, a < b
  PROVE  a % b = a
  OBVIOUS

LEMMA FieldsLemma ==
  /\ Numbers = {"mode", "hci", "major", "minor", "advertize"}
  /\ Strings = {"name", "password", "serial"}
  /\ \A field \in Strings : Length[field] \in Nat
  BY IBeaconAssumption DEF Numbers, Strings

LEMMA SettingsInit == Init => SettingsInv
<1> SUFFICES ASSUME Init
             PROVE  SettingsInv
  OBVIOUS
<1>1. PICK uuid \in Random :
        settings = [number |-> [field \in Numbers |-> Default[field]],
                    string |-> [field \in Strings |-> Stored(field, Default[field])],
                    tx_power |-> Default["tx_power"], uuid |-> uuid]
  BY DEF Init
<1>2. given = [number |-> [field \in Numbers |-> Default[field]],
               string |-> [field \in Strings |-> Default[field]],
               tx_power |-> Default["tx_power"], uuid |-> << >>]
  BY DEF Init
<1>3. \A field \in Numbers \cup Strings \cup {"tx_power"} : Default[field] \in Int
  BY DefaultAssumption DEF Numbers, Strings
<1>4. uuid \in [0 .. UuidBytes - 1 -> Int]
  BY IBeaconAssumption
<1>5. SettingsType
  <2>1. [field \in Numbers |-> Default[field]] \in [Numbers -> Int]
    BY <1>3
  <2>2. [field \in Strings |-> Stored(field, Default[field])] \in [Strings -> Contents]
    BY <1>3, StoredLemma
  <2>3. [field \in Strings |-> Default[field]] \in [Strings -> Int]
    BY <1>3
  <2>4. << >> \in Seq(Digit)
    OBVIOUS
  <2> QED
    BY <1>1, <1>2, <1>3, <1>4, <2>1, <2>2, <2>3, <2>4 DEF SettingsType
<1>6. NumbersAsAsked
  BY <1>1, <1>2 DEF NumbersAsAsked
<1>7. StringsAsAsked
  <2>1. ASSUME NEW field \in Strings, NEW at \in 1 .. Length[field]
        PROVE  settings.string[field][at] = "text" <=> at <= given.string[field]
    BY <1>1, <1>2, <1>3, StoredLemma
  <2>2. settings.string["name"] = Stored("name", Default["name"])
    BY <1>1, FieldsLemma
  <2>3. \E at \in 1 .. Length["name"] : settings.string["name"][at] = "nul"
    BY <2>2, NameLemma, DefaultAssumption, FieldsLemma
  <2> QED
    BY <2>1, <2>3 DEF StringsAsAsked
<1>8. UuidAsAsked
  <2>1. Len(given.uuid) = 0
    BY <1>2
  <2> QED
    BY <2>1 DEF UuidAsAsked
<1>9. DigitsCounted
  BY DEF Init, DigitsCounted
<1> QED
  BY <1>1, <1>2, <1>5, <1>6, <1>7, <1>8, <1>9 DEF SettingsInv

\* What does not touch the settings, and starts no UUID, keeps the invariant.
LEMMA SettingsFrame ==
  ASSUME SettingsInv, UNCHANGED <<settings, given>>,
         phase' # "uuid" \/ UNCHANGED <<phase, parser>>
  PROVE  SettingsInv'
<1>1. SettingsType' /\ NumbersAsAsked' /\ StringsAsAsked' /\ UuidAsAsked'
  BY DEF SettingsInv, SettingsType, NumbersAsAsked, StringsAsAsked, UuidAsAsked
<1>2. settings'.tx_power = given'.tx_power
  BY DEF SettingsInv
<1>3. DigitsCounted'
  BY DEF SettingsInv, DigitsCounted
<1> QED
  BY <1>1, <1>2, <1>3 DEF SettingsInv

LEMMA NumberStep ==
  ASSUME SettingsInv, NEW field \in Numbers, NEW text \in NumberText,
         NumberOption(field, text)
  PROVE  SettingsInv'
<1> DEFINE stored == IF field = "advertize" THEN text.value % Wide ELSE text.value
<1>1. text.value \in Int /\ stored \in Int
  <2>1. text.value \in Int
    BY IBeaconAssumption DEF NumberText
  <2>2. Wide \in Nat \ {0}
    BY IBeaconAssumption
  <2>3. text.value % Wide \in Int
    BY <2>1, <2>2
  <2> QED
    BY <2>1, <2>3
<1>2. settings' = [settings EXCEPT !.number[field] = stored]
  BY DEF NumberOption
<1>3. given' = [given EXCEPT !.number[field] = text.value]
  BY DEF NumberOption
<1>4. phase' = "options"
  BY DEF NumberOption, Taken, Option
<1>5. /\ settings'.number = [settings.number EXCEPT ![field] = stored]
      /\ settings'.string = settings.string /\ settings'.uuid = settings.uuid
      /\ settings'.tx_power = settings.tx_power
  BY <1>2 DEF SettingsInv, SettingsType
<1>6. /\ given'.number = [given.number EXCEPT ![field] = text.value]
      /\ given'.string = given.string /\ given'.uuid = given.uuid
      /\ given'.tx_power = given.tx_power
  BY <1>3 DEF SettingsInv, SettingsType
<1>7. SettingsType'
  BY <1>1, <1>2, <1>3 DEF SettingsInv, SettingsType
<1>8. NumbersAsAsked'
  <2>1. field \in DOMAIN Limit \/ text.value < Wide => stored = text.value
    <3>1. field = "advertize" => field \notin DOMAIN Limit
      BY IBeaconAssumption
    <3>2. text.value >= 0 /\ Wide \in Int
      BY IBeaconAssumption DEF NumberOption, GoodNumber
    <3>3. field = "advertize" /\ text.value < Wide => text.value % Wide = text.value
      BY <1>1, <3>2, ModLemma
    <3> QED
      BY <3>1, <3>3
  <2>2. ASSUME NEW f \in Numbers, f \in DOMAIN Limit \/ given'.number[f] < Wide
        PROVE  settings'.number[f] = given'.number[f]
    <3>1. /\ settings'.number[f] = IF f = field THEN stored ELSE settings.number[f]
          /\ given'.number[f] = IF f = field THEN text.value ELSE given.number[f]
      BY <1>5, <1>6 DEF SettingsInv, SettingsType
    <3>2. CASE f = field
      BY <2>1, <2>2, <3>1, <3>2
    <3>3. CASE f # field
      BY <2>2, <3>1, <3>3 DEF SettingsInv, NumbersAsAsked
    <3> QED
      BY <3>2, <3>3
  <2> QED
    BY <2>2 DEF NumbersAsAsked
<1>9. StringsAsAsked' /\ UuidAsAsked' /\ settings'.tx_power = given'.tx_power
  BY <1>5, <1>6 DEF SettingsInv, StringsAsAsked, UuidAsAsked
<1> QED
  BY <1>4, <1>7, <1>8, <1>9 DEF SettingsInv, DigitsCounted

LEMMA TxStep ==
  ASSUME SettingsInv, NEW text \in NumberText, TxOption(text)
  PROVE  SettingsInv'
<1>1. text.value \in Int
  BY IBeaconAssumption DEF NumberText
<1>2. settings' = [settings EXCEPT !.tx_power = text.value]
  BY DEF TxOption
<1>3. given' = [given EXCEPT !.tx_power = text.value]
  BY DEF TxOption
<1>4. phase' = "options"
  BY DEF TxOption, Taken, Option
<1>5. /\ settings'.number = settings.number /\ settings'.string = settings.string
      /\ settings'.uuid = settings.uuid /\ settings'.tx_power = text.value
  BY <1>2 DEF SettingsInv, SettingsType
<1>6. /\ given'.number = given.number /\ given'.string = given.string
      /\ given'.uuid = given.uuid /\ given'.tx_power = text.value
  BY <1>3 DEF SettingsInv, SettingsType
<1>7. SettingsType'
  BY <1>1, <1>2, <1>3 DEF SettingsInv, SettingsType
<1>8. NumbersAsAsked' /\ StringsAsAsked' /\ UuidAsAsked'
  BY <1>5, <1>6 DEF SettingsInv, NumbersAsAsked, StringsAsAsked, UuidAsAsked
<1> QED
  BY <1>4, <1>5, <1>6, <1>7, <1>8 DEF SettingsInv, DigitsCounted

LEMMA StringStep ==
  ASSUME SettingsInv, NEW field \in Strings, NEW length \in StringText,
         StringOption(field, length)
  PROVE  SettingsInv'
<1>1. length \in Int /\ 0 <= length
  BY DEF StringText
<1>2. settings' = [settings EXCEPT !.string[field] = Stored(field, length)]
  BY DEF StringOption
<1>3. given' = [given EXCEPT !.string[field] = length]
  BY DEF StringOption
<1>4. phase' = "options"
  BY DEF StringOption, Taken, Option
<1>5. /\ settings'.string = [settings.string EXCEPT ![field] = Stored(field, length)]
      /\ settings'.number = settings.number /\ settings'.uuid = settings.uuid
      /\ settings'.tx_power = settings.tx_power
  BY <1>2 DEF SettingsInv, SettingsType
<1>6. /\ given'.string = [given.string EXCEPT ![field] = length]
      /\ given'.number = given.number /\ given'.uuid = given.uuid
      /\ given'.tx_power = given.tx_power
  BY <1>3 DEF SettingsInv, SettingsType
<1>7. SettingsType'
  BY <1>1, <1>2, <1>3, StoredLemma DEF SettingsInv, SettingsType
<1>8. StringsAsAsked'
  <2>1. settings.string \in [Strings -> Contents] /\ given.string \in [Strings -> Int]
    BY DEF SettingsInv, SettingsType
  <2>2. ASSUME NEW f \in Strings, NEW at \in 1 .. Length[f]
        PROVE  settings'.string[f][at] = "text" <=> at <= given'.string[f]
    <3>1. CASE f = field
      <4>1. settings'.string[f] = Stored(f, length) /\ given'.string[f] = length
        BY <1>5, <1>6, <2>1, <3>1
      <4> QED
        BY <1>1, <4>1, StoredLemma
    <3>2. CASE f # field
      <4>1. settings'.string[f] = settings.string[f] /\ given'.string[f] = given.string[f]
        BY <1>5, <1>6, <2>1, <3>2
      <4> QED
        BY <4>1 DEF SettingsInv, StringsAsAsked
    <3> QED
      BY <3>1, <3>2
  <2>3. \E at \in 1 .. Length["name"] : settings'.string["name"][at] = "nul"
    <3>1. CASE field = "name"
      <4>1. settings'.string["name"] = Stored("name", length)
        BY <1>5, <2>1, <3>1, FieldsLemma
      <4>2. length < Length["name"]
        BY <3>1 DEF StringOption, GoodString
      <4> QED
        BY <1>1, <4>1, <4>2, NameLemma
    <3>2. CASE field # "name"
      <4>1. settings'.string["name"] = settings.string["name"]
        BY <1>5, <2>1, <3>2, FieldsLemma
      <4> QED
        BY <4>1 DEF SettingsInv, StringsAsAsked
    <3> QED
      BY <3>1, <3>2
  <2> QED
    BY <2>2, <2>3 DEF StringsAsAsked
<1>9. NumbersAsAsked' /\ UuidAsAsked' /\ settings'.tx_power = given'.tx_power
  BY <1>5, <1>6 DEF SettingsInv, NumbersAsAsked, UuidAsAsked
<1> QED
  BY <1>4, <1>7, <1>8, <1>9 DEF SettingsInv, DigitsCounted

-----------------------------------------------------------------------------
(***************************************************************************)
(* The UUID.                                                               *)
(***************************************************************************)
LEMMA UuidStart ==
  ASSUME SettingsInv, UuidOption
  PROVE  SettingsInv'
<1>1. settings' = settings /\ given' = [given EXCEPT !.uuid = << >>] /\ parser' = NoText
  BY DEF UuidOption
<1>2. /\ given'.number = given.number /\ given'.string = given.string
      /\ given'.uuid = << >> /\ given'.tx_power = given.tx_power
  BY <1>1 DEF SettingsInv, SettingsType
<1>3. SettingsType'
  <2>1. << >> \in Seq(Digit)
    OBVIOUS
  <2> QED
    BY <1>1, <2>1 DEF SettingsInv, SettingsType
<1>4. NumbersAsAsked' /\ StringsAsAsked' /\ settings'.tx_power = given'.tx_power
  BY <1>1, <1>2 DEF SettingsInv, NumbersAsAsked, StringsAsAsked
<1>5. Len(given'.uuid) = 0
  BY <1>2
<1>6. UuidAsAsked'
  BY <1>5 DEF UuidAsAsked
<1>7. DigitsCounted'
  <2>1. 0 \in 0 .. UuidBytes
    BY IBeaconAssumption
  <2>2. parser' \in [i : Nat, j : 0 .. UuidBytes, k : BOOLEAN]
    BY <1>1, <2>1 DEF NoText
  <2>3. parser'.j = 0 /\ parser'.k = FALSE
    BY <1>1 DEF NoText
  <2> QED
    BY <1>5, <2>2, <2>3 DEF DigitsCounted
<1> QED
  BY <1>3, <1>4, <1>6, <1>7 DEF SettingsInv

\* The digits before the last one are as they were.
LEMMA AppendLemma ==
  ASSUME NEW text \in Seq(Digit), NEW char \in Digit
  PROVE  /\ Append(text, char) \in Seq(Digit)
         /\ Len(Append(text, char)) = Len(text) + 1
         /\ \A at \in 1 .. Len(text) : Append(text, char)[at] = text[at]
         /\ Append(text, char)[Len(text) + 1] = char
  OBVIOUS

\* A digit fits into half a byte.
LEMMA DigitLemma ==
  ASSUME NEW char \in Digit
  PROVE  char \in Nat /\ (char * Nibble) % (Nibble * Nibble) = char * Nibble
<1>1. Nibble \in Nat /\ Nibble > 0 /\ char \in Nat /\ char < Nibble
  BY IBeaconAssumption DEF Digit
<1>2. char * Nibble \in Nat /\ Nibble * Nibble \in Nat
  BY <1>1
<1>3. char * Nibble < Nibble * Nibble
  BY <1>1
<1> QED
  BY <1>1, <1>2, <1>3, ModLemma

\* What both digits of a byte have in common.
LEMMA DigitFrame ==
  ASSUME SettingsInv, NEW char \in Digit, NEW byte \in Int, parser.j \in 0 .. UuidBytes - 1,
         settings' = [settings EXCEPT !.uuid[parser.j] = byte],
         given' = [given EXCEPT !.uuid = Append(@, char)]
  PROVE  /\ SettingsType' /\ NumbersAsAsked' /\ StringsAsAsked'
         /\ settings'.tx_power = given'.tx_power
         /\ settings'.uuid = [settings.uuid EXCEPT ![parser.j] = byte]
         /\ given'.uuid = Append(given.uuid, char)
<1>1. /\ settings'.number = settings.number /\ settings'.string = settings.string
      /\ settings'.tx_power = settings.tx_power
      /\ settings'.uuid = [settings.uuid EXCEPT ![parser.j] = byte]
  BY DEF SettingsInv, SettingsType
<1>2. /\ given'.number = given.number /\ given'.string = given.string
      /\ given'.tx_power = given.tx_power /\ given'.uuid = Append(given.uuid, char)
  BY DEF SettingsInv, SettingsType
<1>3. SettingsType'
  <2>1. Append(given.uuid, char) \in Seq(Digit)
    BY AppendLemma DEF SettingsInv, SettingsType
  <2>2. [settings.uuid EXCEPT ![parser.j] = byte] \in [0 .. UuidBytes - 1 -> Int]
    BY DEF SettingsInv, SettingsType
  <2> QED
    BY <2>1, <2>2 DEF SettingsInv, SettingsType
<1>4. NumbersAsAsked' /\ StringsAsAsked'
  BY <1>1, <1>2 DEF SettingsInv, NumbersAsAsked, StringsAsAsked
<1> QED
  BY <1>1, <1>2, <1>3, <1>4 DEF SettingsInv

LEMMA FirstDigitStep ==
  ASSUME SettingsInv, NEW char \in Digit, FirstDigit(char)
  PROVE  SettingsInv'
<1>1. /\ parser \in [i : Nat, j : 0 .. UuidBytes, k : BOOLEAN] /\ ~parser.k
      /\ Len(given.uuid) = 2 * parser.j
  <2>1. phase = "uuid" /\ ~parser.k
    BY DEF FirstDigit, NextCharacter
  <2>2. DigitsCounted
    BY DEF SettingsInv
  <2> QED
    BY <2>1, <2>2 DEF DigitsCounted
<1>2. parser.j \in 0 .. UuidBytes - 1
  <2>1. parser.j < UuidBytes /\ UuidBytes \in Nat
    BY IBeaconAssumption DEF FirstDigit, NextCharacter
  <2>2. parser.j \in 0 .. UuidBytes
    BY <1>1
  <2> QED
    BY <2>1, <2>2
<1>3. char \in Int
  BY DigitLemma
<1>4. /\ SettingsType' /\ NumbersAsAsked' /\ StringsAsAsked'
      /\ settings'.tx_power = given'.tx_power
      /\ settings'.uuid = [settings.uuid EXCEPT ![parser.j] = char]
      /\ given'.uuid = Append(given.uuid, char)
  BY <1>2, <1>3, DigitFrame DEF FirstDigit
<1>5. settings.uuid \in [0 .. UuidBytes - 1 -> Int] /\ given.uuid \in Seq(Digit)
  BY DEF SettingsInv, SettingsType
<1>6. /\ Len(given'.uuid) = 2 * parser.j + 1
      /\ given'.uuid[2 * parser.j + 1] = char
      /\ \A at \in 1 .. 2 * parser.j : given'.uuid[at] = given.uuid[at]
  BY <1>1, <1>4, <1>5, AppendLemma
<1>7. /\ parser' = [i |-> parser.i + 1, j |-> parser.j, k |-> TRUE]
      /\ parser'.j = parser.j /\ parser'.k = TRUE
  BY <1>1 DEF FirstDigit
<1>8. UuidAsAsked'
  <2> SUFFICES ASSUME NEW j \in 0 .. UuidBytes - 1, 2 * j + 2 <= Len(given'.uuid)
               PROVE  settings'.uuid[j] = given'.uuid[2 * j + 1] * Nibble + given'.uuid[2 * j + 2]
    BY DEF UuidAsAsked
  <2>1. j < parser.j /\ 2 * j + 1 \in 1 .. 2 * parser.j /\ 2 * j + 2 \in 1 .. 2 * parser.j
    BY <1>2, <1>6
  <2>2. settings'.uuid[j] = settings.uuid[j]
    BY <1>2, <1>4, <1>5, <2>1
  <2>3. settings.uuid[j] = given.uuid[2 * j + 1] * Nibble + given.uuid[2 * j + 2]
    BY <1>1, <2>1 DEF SettingsInv, UuidAsAsked
  <2> QED
    BY <1>6, <2>1, <2>2, <2>3
<1>9. DigitsCounted'
  <2>1. settings'.uuid[parser.j] = char
    BY <1>2, <1>4, <1>5
  <2>2. parser' \in [i : Nat, j : 0 .. UuidBytes, k : BOOLEAN]
    BY <1>1, <1>7
  <2>3. parser'.j < UuidBytes
    BY <1>2, <1>7, IBeaconAssumption
  <2> QED
    BY <1>6, <1>7, <2>1, <2>2, <2>3 DEF DigitsCounted
<1> QED
  BY <1>4, <1>8, <1>9 DEF SettingsInv

LEMMA SecondDigitStep ==
  ASSUME SettingsInv, NEW char \in Digit, SecondDigit(char)
  PROVE  SettingsInv'
<1>1. /\ parser \in [i : Nat, j : 0 .. UuidBytes, k : BOOLEAN] /\ parser.k
      /\ Len(given.uuid) = 2 * parser.j + 1
      /\ settings.uuid[parser.j] = given.uuid[2 * parser.j + 1]
  <2>1. phase = "uuid" /\ parser.k
    BY DEF SecondDigit, NextCharacter
  <2>2. DigitsCounted
    BY DEF SettingsInv
  <2> QED
    BY <2>1, <2>2 DEF DigitsCounted
<1>2. parser.j \in 0 .. UuidBytes - 1
  <2>1. parser.j < UuidBytes /\ UuidBytes \in Nat
    BY IBeaconAssumption DEF SecondDigit, NextCharacter
  <2>2. parser.j \in 0 .. UuidBytes
    BY <1>1
  <2> QED
    BY <2>1, <2>2
<1>3. settings.uuid \in [0 .. UuidBytes - 1 -> Int] /\ given.uuid \in Seq(Digit)
  BY DEF SettingsInv, SettingsType
<1> DEFINE first == given.uuid[2 * parser.j + 1]
           byte == first * Nibble + char
<1>4. first \in Digit /\ Nibble \in Nat
  <2>1. 2 * parser.j + 1 \in 1 .. Len(given.uuid)
    BY <1>1, <1>2
  <2>2. Nibble \in Nat
    BY IBeaconAssumption
  <2> QED
    BY <1>3, <2>1, <2>2
<1>5. byte \in Int /\ ((settings.uuid[parser.j] * Nibble) % (Nibble * Nibble)) + char = byte
  <2>1. first \in Nat /\ (first * Nibble) % (Nibble * Nibble) = first * Nibble /\ char \in Nat
    BY <1>4, DigitLemma
  <2>2. first * Nibble \in Nat
    BY <1>4, <2>1
  <2> QED
    BY <1>1, <2>1, <2>2
<1>6. settings' = [settings EXCEPT !.uuid[parser.j] = byte]
  <2>1. settings' = [settings EXCEPT !.uuid[parser.j] =
                      ((settings.uuid[parser.j] * Nibble) % (Nibble * Nibble)) + char]
    BY DEF SecondDigit
  <2> QED
    BY <1>5, <2>1
<1> HIDE DEF byte
<1>7. /\ SettingsType' /\ NumbersAsAsked' /\ StringsAsAsked'
      /\ settings'.tx_power = given'.tx_power
      /\ settings'.uuid = [settings.uuid EXCEPT ![parser.j] = byte]
      /\ given'.uuid = Append(given.uuid, char)
  BY <1>2, <1>5, <1>6, DigitFrame DEF SecondDigit
<1>8. /\ Len(given'.uuid) = 2 * parser.j + 2
      /\ given'.uuid[2 * parser.j + 2] = char
      /\ \A at \in 1 .. 2 * parser.j + 1 : given'.uuid[at] = given.uuid[at]
  <2>1. parser.j \in Int /\ 2 * parser.j + 1 + 1 = 2 * parser.j + 2
    BY <1>2
  <2> DEFINE text == Append(given.uuid, char)
  <2>2. /\ Len(text) = Len(given.uuid) + 1 /\ text[Len(given.uuid) + 1] = char
        /\ \A at \in 1 .. Len(given.uuid) : text[at] = given.uuid[at]
    BY <1>3, AppendLemma
  <2> HIDE DEF text
  <2>3. given'.uuid = text
    BY <1>7 DEF text
  <2> QED
    BY <1>1, <2>1, <2>2, <2>3
<1>9. /\ parser' = [i |-> parser.i + 1, j |-> parser.j + 1, k |-> FALSE]
      /\ parser'.j = parser.j + 1 /\ parser'.k = FALSE
  BY <1>1 DEF SecondDigit
<1>10. UuidAsAsked'
  <2> SUFFICES ASSUME NEW j \in 0 .. UuidBytes - 1, 2 * j + 2 <= Len(given'.uuid)
               PROVE  settings'.uuid[j] = given'.uuid[2 * j + 1] * Nibble + given'.uuid[2 * j + 2]
    BY DEF UuidAsAsked
  <2>1. CASE j = parser.j
    <3>1. settings'.uuid[j] = byte
      BY <1>2, <1>3, <1>7, <2>1
    <3>2. given'.uuid[2 * j + 1] = first /\ given'.uuid[2 * j + 2] = char
      <4>1. 2 * parser.j + 1 \in 1 .. 2 * parser.j + 1
        BY <1>2
      <4> QED
        BY <1>8, <2>1, <4>1
    <3> QED
      BY <3>1, <3>2 DEF byte
  <2>2. CASE j # parser.j
    <3>1. j < parser.j /\ 2 * j + 1 \in 1 .. 2 * parser.j + 1 /\ 2 * j + 2 \in 1 .. 2 * parser.j + 1
      BY <1>2, <1>8, <2>2
    <3>2. settings'.uuid[j] = settings.uuid[j]
      BY <1>2, <1>3, <1>7, <2>2
    <3>3. settings.uuid[j] = given.uuid[2 * j + 1] * Nibble + given.uuid[2 * j + 2]
      BY <1>1, <1>2, <3>1 DEF SettingsInv, UuidAsAsked
    <3> QED
      BY <1>8, <3>1, <3>2, <3>3
  <2> QED
    BY <2>1, <2>2
<1>11. DigitsCounted'
  <2>1. parser.j + 1 \in 0 .. UuidBytes
    <3>1. UuidBytes \in Nat
      BY IBeaconAssumption
    <3> QED
      BY <1>2, <3>1
  <2>2. parser' \in [i : Nat, j : 0 .. UuidBytes, k : BOOLEAN]
    BY <1>1, <1>9, <2>1
  <2>3. Len(given'.uuid) = 2 * parser'.j
    BY <1>2, <1>8, <1>9
  <2> QED
    BY <1>9, <2>2, <2>3 DEF DigitsCounted
<1> QED
  BY <1>7, <1>10, <1>11 DEF SettingsInv

\* A separator may stand between the two digits of a byte.
LEMMA SeparatorStep ==
  ASSUME SettingsInv, SkipSeparator
  PROVE  SettingsInv'
<1>1. parser \in [i : Nat, j : 0 .. UuidBytes, k : BOOLEAN]
  BY DEF SettingsInv, DigitsCounted, SkipSeparator, NextCharacter
<1>2. /\ parser' \in [i : Nat, j : 0 .. UuidBytes, k : BOOLEAN]
      /\ parser'.j = parser.j /\ parser'.k = parser.k
  BY <1>1 DEF SkipSeparator
<1>3. UNCHANGED <<settings, given>>
  BY DEF SkipSeparator
<1>4. SettingsType' /\ NumbersAsAsked' /\ StringsAsAsked' /\ UuidAsAsked'
  BY <1>3 DEF SettingsInv, SettingsType, NumbersAsAsked, StringsAsAsked, UuidAsAsked
<1>5. DigitsCounted'
  BY <1>2, <1>3 DEF SettingsInv, DigitsCounted, SkipSeparator, NextCharacter
<1> QED
  BY <1>3, <1>4, <1>5 DEF SettingsInv

LEMMA SettingsStep ==
  ASSUME SettingsInv, [Next]_vars
  PROVE  SettingsInv'
<1>1. ASSUME NEW field \in Numbers, NEW text \in NumberText,
             NumberOption(field, text) \/ BadNumberOption(field, text)
      PROVE  SettingsInv'
  BY <1>1, NumberStep, SettingsFrame DEF BadNumberOption, Rejected, Fail
<1>2. ASSUME NEW text \in NumberText, TxOption(text) \/ BadTxOption(text)
      PROVE  SettingsInv'
  BY <1>2, TxStep, SettingsFrame DEF BadTxOption, Rejected, Fail
<1>3. ASSUME NEW field \in Strings, NEW length \in StringText,
             StringOption(field, length) \/ BadStringOption(field, length)
      PROVE  SettingsInv'
  BY <1>3, StringStep, SettingsFrame DEF BadStringOption, Rejected, Fail
<1>4. ASSUME NEW char \in Digit, FirstDigit(char) \/ SecondDigit(char)
      PROVE  SettingsInv'
  BY <1>4, FirstDigitStep, SecondDigitStep
<1>5. CASE UuidOption \/ SkipSeparator
  BY <1>5, UuidStart, SeparatorStep
<1>6. CASE WrongCharacter
  BY <1>6, SettingsFrame DEF WrongCharacter, Fail
<1>7. CASE EndOfUuid
  BY <1>7, SettingsFrame DEF EndOfUuid
<1>8. CASE OtherOption
  BY <1>8, SettingsFrame DEF OtherOption, Rejected, Fail
<1>9. CASE ExtraArgument
  BY <1>9, SettingsFrame DEF ExtraArgument
<1>10. CASE EndOfOptions
  <2>1. phase' \in {"exited", "open"}
    BY <1>10 DEF EndOfOptions, Fail
  <2> QED
    BY <1>10, <2>1, SettingsFrame DEF EndOfOptions
<1>11. CASE \E failing \in {"hci_devinfo", "hci_open_dev", "hci_read_local_version", "none"} :
             OpenHci(failing)
  BY <1>11, SettingsFrame DEF OpenHci
<1>12. CASE CleanUp
  BY <1>12, SettingsFrame DEF CleanUp
<1>13. CASE UNCHANGED vars
  BY <1>13, SettingsFrame DEF vars
<1> QED
  BY <1>1, <1>2, <1>3, <1>4, <1>5, <1>6, <1>7, <1>8, <1>9, <1>10, <1>11, <1>12, <1>13
     DEF Next, Exited

(***************************************************************************)
(* The beacon is started with the numbers (an interval that does not fit   *)
(* 32 bits excepted), the strings and, of the UUID, the bytes for which    *)
(* two digits were read, that the last option for each asked for.  That    *)
(* all the digits are there it does not say, as the code does not ask.     *)
(***************************************************************************)
THEOREM BeaconStartsAsAsked == Spec => []StartsAsAsked
<1>1. Spec => []SettingsInv
  BY SettingsInit, SettingsStep, PTL DEF Spec
<1>2. SettingsInv => StartsAsAsked
  BY DEF SettingsInv, StartsAsAsked
<1> QED
  BY <1>1, <1>2, PTL
=============================================================================
