----------------------------- MODULE ParamTable -----------------------------
(***************************************************************************)
(* The parameters of the demonstration: the table of accesses, the table   *)
(* of restrictions and the default values that the build generates         *)
(* (parameters_cfg.c, parameters_default.c), and what Storage_Init makes   *)
(* of the values (storage.c).  A value is a number, little-endian in       *)
(* a_ParamValue; when a write takes effect and what is referenced are not  *)
(* read by any code, and are left out.                                     *)
(***************************************************************************)
EXTENDS Naturals, FiniteSets, TLC

\* The identifiers (param_ids_e).
param_ids_e == [
  VERS_HW_TRX |-> \h01, VERS_FW_TRX |-> \h02, DATEHOUR_LAST_UPDATE |-> \h03,
  L6App |-> \h04, RF_UPLINK_CHANNEL |-> \h08, RF_DOWNLINK_CHANNEL |-> \h09,
  RF_UPLINK_MOD |-> \h0A, RF_DOWNLINK_MOD |-> \h0B, TX_POWER |-> \h10,
  TX_DELAY_FULLPOWER |-> \h11, TX_FREQ_OFFSET |-> \h12, EXCH_RX_DELAY |-> \h18,
  EXCH_RX_LENGTH |-> \h19, EXCH_RESPONSE_DELAY |-> \h1A,
  EXCH_RESPONSE_DELAY_MIN |-> \h1B, L7TRANSMIT_LENGTH_MAX |-> \h1C,
  L7RECEIVE_LENGTH_MAX |-> \h1D, CLOCK_CURRENT_EPOC |-> \h20,
  CLOCK_OFFSET_CORRECTION |-> \h21, CLOCK_DRIFT_CORRECTION |-> \h22,
  CIPH_CURRENT_KEY |-> \h28, CIPH_KEY_COUNT |-> \h29, L6NetwIdSelect |-> \h2A,
  PING_RX_DELAY |-> \h30, PING_RX_LENGTH |-> \h31, PING_RX_DELAY_MIN |-> \h32,
  PING_RX_LENGTH_MAX |-> \h33, PING_LAST_EPOCH |-> \h34, PING_NBFOUND |-> \h35,
  PING_REPLY1 |-> \h36, PING_REPLY2 |-> \h37, PING_REPLY3 |-> \h38,
  PING_REPLY4 |-> \h39, PING_REPLY5 |-> \h3A, PING_REPLY6 |-> \h3B,
  PING_REPLY7 |-> \h3C, PING_REPLY8 |-> \h3D, EXECPING_PERIODE |-> \h3E,
  LOGGER_LEVEL |-> \hFD, LOGGER_TIME_OPT |-> \hFE ]

\* A row of a_ParamAccess: local and remote access, size in bytes, place in
\* a_ParamValue, and row of a_ParamRestr (0 for none).
Row(loc, rem, size, off, restr) ==
  [loc |-> loc, rem |-> rem, size |-> size, off |-> off, restr |-> restr]

a_ParamAccess == [
  VERS_HW_TRX             |-> Row("RO", "RO", 2,   0, 0),
  VERS_FW_TRX             |-> Row("RO", "RO", 2,   2, 0),
  DATEHOUR_LAST_UPDATE    |-> Row("RO", "RO", 4,   4, 0),
  L6App                   |-> Row("RW", "RW", 1,   8, 0),
  RF_UPLINK_CHANNEL       |-> Row("RW", "RW", 1,   9, 1),
  RF_DOWNLINK_CHANNEL     |-> Row("RW", "RW", 1,  10, 1),
  RF_UPLINK_MOD           |-> Row("RW", "RW", 1,  11, 2),
  RF_DOWNLINK_MOD         |-> Row("RW", "RW", 1,  12, 2),
  TX_POWER                |-> Row("RW", "RW", 1,  13, 2),
  TX_DELAY_FULLPOWER      |-> Row("RW", "RW", 2,  14, 0),
  TX_FREQ_OFFSET          |-> Row("RW", "RW", 2,  16, 0),
  EXCH_RX_DELAY           |-> Row("RW", "RW", 1,  18, 0),
  EXCH_RX_LENGTH          |-> Row("RW", "RW", 1,  19, 0),
  EXCH_RESPONSE_DELAY     |-> Row("RW", "RW", 1,  20, 0),
  EXCH_RESPONSE_DELAY_MIN |-> Row("RO", "RO", 1,  21, 0),
  L7TRANSMIT_LENGTH_MAX   |-> Row("RW", "RO", 1,  22, 3),
  L7RECEIVE_LENGTH_MAX    |-> Row("RW", "RO", 1,  23, 4),
  CLOCK_CURRENT_EPOC      |-> Row("RW", "RW", 4,  24, 0),
  CLOCK_OFFSET_CORRECTION |-> Row("WO", "WO", 2,  28, 0),
  CLOCK_DRIFT_CORRECTION  |-> Row("RW", "RW", 2,  30, 0),
  CIPH_CURRENT_KEY        |-> Row("RW", "RW", 1,  32, 5),
  CIPH_KEY_COUNT          |-> Row("RO", "RO", 1,  33, 0),
  L6NetwIdSelect          |-> Row("RW", "RO", 1,  34, 0),
  PING_RX_DELAY           |-> Row("RW", "RW", 1,  35, 0),
  PING_RX_LENGTH          |-> Row("RW", "RW", 1,  36, 0),
  PING_RX_DELAY_MIN       |-> Row("RO", "RO", 1,  37, 0),
  PING_RX_LENGTH_MAX      |-> Row("RO", "RO", 1,  38, 0),
  PING_LAST_EPOCH         |-> Row("RO", "RO", 4,  39, 0),
  PING_NBFOUND            |-> Row("RO", "RO", 1,  43, 0),
  PING_REPLY1             |-> Row("RO", "RO", 9,  44, 0),
  PING_REPLY2             |-> Row("RO", "RO", 9,  53, 0),
  PING_REPLY3             |-> Row("RO", "RO", 9,  62, 0),
  PING_REPLY4             |-> Row("RO", "RO", 9,  71, 0),
  PING_REPLY5             |-> Row("RO", "RO", 9,  80, 0),
  PING_REPLY6             |-> Row("RO", "RO", 9,  89, 0),
  PING_REPLY7             |-> Row("RO", "RO", 9,  98, 0),
  PING_REPLY8             |-> Row("RO", "RO", 9, 107, 0),
  EXECPING_PERIODE        |-> Row("RW", "RW", 1, 116, 0),
  LOGGER_LEVEL            |-> Row("RW", "NA", 1, 117, 0),
  LOGGER_TIME_OPT         |-> Row("RW", "NA", 1, 118, 0)
  ]

\* The row of every other identifier below 0xFF: nobody has access.
Reserved == Row("NA", "NA", 0, 0, 0)

\* The tables of the restrictions.
a_ENUM_01  == <<100, 110, 120, 130, 140, 150>>
a_RANGE_02 == <<0, 2>>
a_RANGE_03 == <<40, 200>>
a_RANGE_04 == <<50, 200>>
a_RANGE_05 == <<0, 14>>

a_ParamRestr ==
  << [kind |-> "ENUM",  table |-> a_ENUM_01],  [kind |-> "RANGE", table |-> a_RANGE_02],
     [kind |-> "RANGE", table |-> a_RANGE_03], [kind |-> "RANGE", table |-> a_RANGE_04],
     [kind |-> "RANGE", table |-> a_RANGE_05] >>

Unrestricted == [kind |-> "none", table |-> <<>>]

\* The default values that are not zero.
Defaults == [
  VERS_HW_TRX           |-> 1,   VERS_FW_TRX           |-> 1,
  RF_UPLINK_CHANNEL     |-> 100, RF_DOWNLINK_CHANNEL   |-> 120,
  EXCH_RX_DELAY         |-> 5,   EXCH_RX_LENGTH        |-> 8,
  EXCH_RESPONSE_DELAY   |-> 5,   L7TRANSMIT_LENGTH_MAX |-> 80,
  L7RECEIVE_LENGTH_MAX  |-> 100, CLOCK_CURRENT_EPOC    |-> \h27E250,
  CLOCK_DRIFT_CORRECTION |-> 256, CIPH_CURRENT_KEY     |-> 2,
  CIPH_KEY_COUNT        |-> 14,  L6NetwIdSelect        |-> 1,
  PING_RX_DELAY         |-> 10,  PING_RX_LENGTH        |-> 5,
  PING_RX_LENGTH_MAX    |-> 20,  EXECPING_PERIODE      |-> 6 ]

a_ParamDefault == Defaults @@ [p \in DOMAIN a_ParamAccess |-> 0]

\* Storage_Init: the defaults, no ciphering, the delays and lengths of the sessions.
Stored ==
  [CIPH_CURRENT_KEY |-> 0, EXCH_RX_DELAY |-> 1, EXCH_RX_LENGTH |-> 1,
   EXCH_RESPONSE_DELAY |-> 1, PING_RX_DELAY |-> 1, PING_RX_LENGTH |-> 1] @@ a_ParamDefault

\* A row that has been read: its restriction is that of its number, if there is one.
RestrOf(r) == IF r.restr \in DOMAIN a_ParamRestr THEN a_ParamRestr[r.restr] ELSE Unrestricted

-----------------------------------------------------------------------------
Bytes(r) == r.off .. r.off + r.size - 1
TableSize == \h77    \* PARAM_DEFAULT_SZ

\* The generated tables agree with each other: no two parameters share a byte of
\* a_ParamValue, the copies of Param_Init and _param_access_ stay inside of it,
\* and a default value fits the size of its parameter and obeys its restriction.
ASSUME TablesAgree ==
  /\ DOMAIN param_ids_e = DOMAIN a_ParamAccess
  /\ UNION {Bytes(a_ParamAccess[p]) : p \in DOMAIN a_ParamAccess} = 0 .. TableSize - 1
  /\ \A p, q \in DOMAIN a_ParamAccess :
       p # q => /\ param_ids_e[p] # param_ids_e[q]
                /\ Bytes(a_ParamAccess[p]) \cap Bytes(a_ParamAccess[q]) = {}
  /\ \A p \in DOMAIN a_ParamAccess :
       /\ a_ParamAccess[p].size \in 1 .. 2 => Stored[p] < 256 ^ a_ParamAccess[p].size
       /\ a_ParamAccess[p].restr # 0 =>
            LET r == RestrOf(a_ParamAccess[p])
                Allowed == IF r.kind = "ENUM" THEN {r.table[i] : i \in DOMAIN r.table}
                           ELSE r.table[1] .. r.table[2]
            IN  {a_ParamDefault[p], Stored[p]} \subseteq Allowed
=============================================================================
