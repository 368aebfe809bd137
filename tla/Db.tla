--------------------------------- MODULE Db ---------------------------------
(***************************************************************************)
(* The look-ups of src/src/common/db.c.  A string of a table is known by   *)
(* its row: the name of a 16-bit UUID by <<"uuid16", uuid>>, that of a     *)
(* 128-bit UUID by <<"uuid128", value, tail>>, that of an appearance by    *)
(* the value of its row.  Of a 128-bit UUID in text, "value" is its first  *)
(* group and "tail" the other ones.                                        *)
(*                                                                         *)
(* A definition marked "mutant" is the one after it with a bug put in; the *)
(* specification does not use it.                                          *)
(***************************************************************************)
EXTENDS ByteOrder, Sequences

CONSTANTS
  Uuid16,   \* the UUIDs in __s_c_uuid16_table
  Uuid128,  \* the UUIDs in __s_c_uuid128_table, as <<value, tail>>
  NULL

\* What detect_vendor can return that is not NULL.
Name == {<<"Unknown">>, <<"Vendor specific">>} \cup ({"uuid16"} \X Uuid16)
          \cup {<<"uuid128", uuid[1], uuid[2]>> : uuid \in Uuid128}

ASSUME NullAssumption == NULL \notin Nat \cup Name

\* 16 and 32 bits, in words of ByteOrder.
Max16 == Power[2]
Max32 == Power[4]

uuid2str16(uuid) == IF uuid \in Uuid16 THEN <<"uuid16", uuid>> ELSE <<"Unknown">>

uuid2str32(uuid) ==
  IF uuid \div Max16 = 0 THEN uuid2str16(uuid % Max16) ELSE <<"Unknown">>

(***************************************************************************)
(* detect_vendor, of a text.  A text that is too short for a UUID may be a *)
(* number (strtol), cut to 32 bits; one of 36 characters is a UUID, whose  *)
(* value is NULL when its first eight are no hexadecimal number.           *)
(***************************************************************************)
BaseTail == [at \in 0 .. 11 |-> IF at = 0 THEN 1 ELSE 0]  \* 0000-1000-8000-00805f9b34fb

NumberName(value) ==
  LET cut == value % Max32
  IN IF cut >= Max16 THEN uuid2str32(cut) ELSE uuid2str16(cut)

UuidNameBaseFirst(value, tail) ==                                          \* mutant
  IF tail = BaseTail /\ value # NULL THEN uuid2str32(value)
  ELSE IF <<value, tail>> \in Uuid128 THEN <<"uuid128", value, tail>>
  ELSE IF tail = BaseTail THEN NULL ELSE <<"Vendor specific">>

UuidName(value, tail) ==
  IF <<value, tail>> \in Uuid128 THEN <<"uuid128", value, tail>>
  ELSE IF tail # BaseTail THEN <<"Vendor specific">>
  ELSE IF value = NULL THEN NULL ELSE uuid2str32(value)

detect_vendor(text) ==
  CASE text.form = "number" -> NumberName(text.value)
    [] text.form = "uuid" -> UuidName(text.value, text.tail)
    [] OTHER -> NULL

\* uuid2str128, of 16 bytes, the lowest first.
uuid2str128(bytes) ==
  detect_vendor([form |-> "uuid", value |-> Get(bytes, 12, 4, "le"),
                 tail |-> [at \in 0 .. 11 |-> bytes[at]]])

-----------------------------------------------------------------------------
(***************************************************************************)
(* __s_c_appearance_table: rows in order, generic ones for a category of   *)
(* 64 appearances, the others for one; and detect_device, which walks the  *)
(* rows up to the one it looks for or the next category.                   *)
(***************************************************************************)
Generic(value) == [value |-> value, is_generic |-> TRUE]
Exact(value) == [value |-> value, is_generic |-> FALSE]

Categories(first, last) == [i \in 1 .. (last - first + 1) |-> Generic((first + i - 1) * 64)]
Devices(first, last) == [i \in 1 .. (last - first + 1) |-> Exact(first + i - 1)]

AppearanceTableOpen ==                                                     \* mutant
  Categories(0, 18) \o Devices(1153, 1157) \o Categories(49, 50) \o Categories(81, 82)

AppearanceTable ==
  Categories(0, 3) \o Devices(193, 193)
  \o Categories(4, 12) \o Devices(769, 769)
  \o Categories(13, 13) \o Devices(833, 833)
  \o Categories(14, 14) \o Devices(897, 898)
  \o Categories(15, 15) \o Devices(961, 968)
  \o Categories(16, 17) \o Devices(1089, 1091)
  \o Categories(18, 18) \o Devices(1153, 1157) \o Categories(19, 19)
  \o Categories(49, 49) \o Devices(3137, 3138) \o Categories(50, 51)
  \o Categories(81, 81) \o Devices(5185, 5188) \o Categories(82, 82)

\* The rows that close a range of categories.
Undefined == {1216, 3264, 5248}

detect_device(appearance) ==
  LET Row(i) == AppearanceTable[i]
      Rows == DOMAIN AppearanceTable
      Stops == {i \in Rows : \/ Row(i).is_generic /\ appearance < Row(i).value
                             \/ Row(i).value = appearance}
      Walked == {i \in Rows : \A stop \in Stops : i <= stop}
      Last(rows) == CHOOSE i \in rows : \A j \in rows : j <= i
      Found == {i \in Walked : Row(i).value = appearance}
      Types == {i \in Walked : Row(i).is_generic /\ Row(i).value <= appearance}
  IN Row(Last(IF Found # {} THEN Found ELSE Types)).value
=============================================================================
