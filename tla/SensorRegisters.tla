-------------------------- MODULE SensorRegisters --------------------------
(***************************************************************************)
(* How the settings page turns its text fields into sensor registers and   *)
(* back (odyssey_desktop/src/components/sensor_settings.rs 14-635 and      *)
(* 814-929).                                                               *)
(*                                                                         *)
(* A text is the number it spells, or NoNumber.  A register is addressed   *)
(* by <<bank, address>>; a port is a map from addresses to bytes.          *)
(***************************************************************************)
EXTENDS Integers, Sequences, SequencesExt, Functions

CONSTANT NoNumber   \* a text that is empty or does not parse

ASSUME NoNumberAssumption == NoNumber \notin Int

Byte == 0 .. 255

(***************************************************************************)
(* Numbers of several bytes, least significant first.                      *)
(***************************************************************************)
Place == <<1, 256, 65536>>

FromBytes(bytes) ==
  LET part(i) == IF i <= Len(bytes) THEN bytes[i] * Place[i] ELSE 0
  IN  part(1) + part(2) + part(3)

\* Mutant: the low byte is not cut off.
ToBytesWide(value, n) == [i \in 1 .. n |-> value \div Place[i]]

ToBytes(value, n) == [i \in 1 .. n |-> (value \div Place[i]) % 256]

(***************************************************************************)
(* The 49 gains of the PAJ sensor, b_global and b_ggh by index.            *)
(***************************************************************************)
Gain1x == [i \in 0 .. 15 |-> <<i, 0>>]
Gain2x == [i \in 16 .. 31 |-> <<i - 16, 2>>]
Gain4x == [i \in 32 .. 48 |-> <<i - 32, 3>>]

LastGain == 48

GAIN_TABLE ==
  [i \in 0 .. LastGain |->
     IF i < 16 THEN Gain1x[i] ELSE IF i < 32 THEN Gain2x[i] ELSE Gain4x[i]]

gain_index_from_reg(b_global, b_ggh) ==
  (IF b_ggh > 0 THEN b_ggh - 1 ELSE 0) * 16 + b_global

(***************************************************************************)
(* The fields of the two panels: where each is read, in the order of the   *)
(* reads, and where it is written, in the order of the writes, with the    *)
(* bytes of the type its text is parsed as and what stands for a text that *)
(* does not parse.                                                         *)
(***************************************************************************)
Read(name, bank, addrs) ==
  [name |-> name, at |-> [i \in DOMAIN addrs |-> <<bank, addrs[i]>>]]

PajReads ==
  << Read("brightness_threshold", 12, <<71>>),
     Read("noise_threshold",       0, <<15>>),
     Read("area_threshold_min",   12, <<70>>),
     Read("area_threshold_max",    0, <<11, 12>>),
     Read("max_object_cnt",        0, <<25>>),
     Read("operation_mode",        0, <<18>>),
     Read("exposure_time",         1, <<14, 15>>),
     Read("frame_period",         12, <<7, 8, 9>>),
     Read("frame_subtraction",     0, <<40>>),
     Read("gain_index",            1, <<5, 6>>),
     Read("resolution_x",         12, <<96, 97>>),
     Read("resolution_y",         12, <<98, 99>>) >>

Write(name, bank, addrs, width, default) ==
  [name |-> name, at |-> [i \in DOMAIN addrs |-> <<bank, addrs[i]>>],
   width |-> width, default |-> default]

PajWrites ==
  << Write("brightness_threshold", 12, <<71>>,      1, 0),
     Write("noise_threshold",       0, <<15>>,      1, 0),
     Write("area_threshold_min",   12, <<70>>,      1, 0),
     Write("area_threshold_max",    0, <<11, 12>>,  2, 0),
     Write("max_object_cnt",        0, <<25>>,      1, 16),
     Write("operation_mode",        0, <<18>>,      1, 0),
     Write("exposure_time",        12, <<15, 16>>,  2, 0),
     Write("frame_period",         12, <<7, 8, 9>>, 4, 49780),
     Write("frame_subtraction",     0, <<40>>,      1, 0),
     Write("gain_index",           12, <<11, 12>>,  8, 0),
     Write("resolution_x",         12, <<96, 97>>,  2, 4095),
     Write("resolution_y",         12, <<98, 99>>,  2, 4095),
     Write("sync",                  1, <<1>>,       1, 1),
     Write("sync",                  0, <<1>>,       1, 1) >>

PagReads ==
  << Read("fps",             0, <<19>>),
     Read("exposure_us",     0, <<103>>),
     Read("gain",            0, <<104>>),
     Read("light_threshold", 0, <<109>>),
     Read("area_lower",      0, <<110, 111>>),
     Read("area_upper",      0, <<112, 113>>) >>

PagWrites ==
  << Write("fps",             0, <<19>>,       1, 180),
     Write("exposure_us",     0, <<103>>,      2, 2000),
     Write("gain",            0, <<104>>,      1, 2),
     Write("light_threshold", 0, <<109>>,      1, 120),
     Write("area_lower",      0, <<110, 111>>, 2, 10),
     Write("area_upper",      0, <<112, 113>>, 2, 65535) >>

\* The registers behind a sensor's panels.
Registers(sensor) ==
  LET rows == IF sensor = "PAJ" THEN Range(PajReads) \cup Range(PajWrites)
              ELSE Range(PagReads) \cup Range(PagWrites)
  IN  UNION {Range(x.at) : x \in rows}

(***************************************************************************)
(* Parsing.  A width of 4 or more holds every number of this model.        *)
(***************************************************************************)
Parses(text, width) ==
  text # NoNumber /\ (width < 4 => text < 256 * Place[width])

Parse(text, width, default) ==
  IF Parses(text, width) THEN text ELSE default

\* What a field shows for the bytes that were read.
Shown(name, bytes) ==
  CASE name = "gain_index"  -> gain_index_from_reg(bytes[1], bytes[2])
    [] name = "exposure_us" -> (bytes[1] % 128) * 100
    [] OTHER                -> FromBytes(bytes)

\* The exposure of a PAG sensor counts units of 100 us in seven bits; bit 7
\* keeps the LED on, and what the cast to u8 leaves in it is or-ed with that.
Exposure(us) ==
  LET units == (us \div 100) % 256
  IN  IF units < 128 THEN units + 128 ELSE units

\* The bytes a field's text is written as.
Written(write, text) ==
  LET value == Parse(text, write.width, write.default)
  IN  CASE write.name = "gain_index" ->
             GAIN_TABLE[IF value < LastGain THEN value ELSE LastGain]
        [] write.name = "exposure_us" -> <<Exposure(value)>>
        [] OTHER -> ToBytes(value, Len(write.at))

(***************************************************************************)
(* The values behind Load Defaults.                                        *)
(***************************************************************************)
paj_load_defaults(port) ==
  [brightness_threshold |-> 110,
   noise_threshold      |-> 15,
   area_threshold_min   |-> IF port = 0 THEN 10 ELSE 5,
   area_threshold_max   |-> 9605,
   max_object_cnt       |-> 16,
   operation_mode       |-> 0,
   exposure_time        |-> IF port = 0 THEN 8192 ELSE 11365,
   frame_period         |-> 49780,
   frame_subtraction    |-> 0,
   gain_index           |-> IF port = 0 THEN gain_index_from_reg(16, 0)
                                        ELSE gain_index_from_reg(8, 3),
   resolution_x         |-> 4095,
   resolution_y         |-> 4095]

pag_load_defaults ==
  [fps |-> 180, exposure_us |-> 2000, gain |-> 2, light_threshold |-> 120,
   area_lower |-> 10, area_upper |-> 65535]

\* The panels as they are created: empty, but for the three selections.
PajDefault ==
  [name \in {PajReads[i].name : i \in DOMAIN PajReads} |->
     IF name \in {"operation_mode", "frame_subtraction", "gain_index"}
     THEN 0 ELSE NoNumber]

PagDefault ==
  [name \in {PagReads[i].name : i \in DOMAIN PagReads} |-> NoNumber]
=============================================================================
