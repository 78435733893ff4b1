------------------------------ MODULE Decoders -------------------------------
(***************************************************************************)
(* What the words that the FOCAS library fills in mean to pottracker       *)
(* (shared/focas/decoders.py, and the tables of lathe.py): pure operators  *)
(* from raw words to values.                                               *)
(*                                                                         *)
(* Lengths are integers in units of 0.0001, the grid to which every value  *)
(* is quantised.  A value that may be absent is a sequence of at most one  *)
(* element.                                                                *)
(***************************************************************************)
EXTENDS Integers, Sequences

\* One, in these units.
Whole == 10000

Nothing == <<>>
Just(v) == <<v>>

-----------------------------------------------------------------------------
(* The banks behind the type codes of cnc_rdtofs.                          *)

MemoryA == [code \in {1} |-> "h_geom"]
MemoryB == [code \in 0..3 |->
              CASE code = 0 -> "d_wear" [] code = 1 -> "d_geom"
                [] code = 2 -> "h_wear" [] code = 3 -> "h_geom"]
MemoryC == [code \in 1..4 |-> <<"h_geom", "h_wear", "d_geom", "d_wear">>[code]]
LatheTypeMap == [code \in 0..6 |->
  <<"x_wear", "x_geom", "z_wear", "z_geom", "r_wear", "r_geom", "tip">>[code + 1]]

\* (Variant: memory B as FANUC documents it.)
OfsTypeDispatchDocumented(type) ==
  CASE type = 1 -> MemoryA
    [] type = 2 -> [code \in 1..2 |-> <<"h_geom", "h_wear">>[code]]
    [] type = 3 -> MemoryC
    [] OTHER -> Nothing

\* _OFS_TYPE_DISPATCH: no codes at all for a memory type it does not know.
OfsTypeDispatch(type) ==
  CASE type = 1 -> MemoryA [] type = 2 -> MemoryB [] type = 3 -> MemoryC
    [] OTHER -> Nothing

-----------------------------------------------------------------------------
(* Values.                                                                 *)

\* The envelope of models.OffsetRegister; beyond it the model is not built.
Envelope == 99999999
InEnvelope(v) == v >= -Envelope /\ v <= Envelope

\* decode_offset: raw counts of `increment` units each; a tip is a code, which
\* read_offsets_lathe does not scale.
DecodeOffset(bank, raw, increment) ==
  IF bank = "tip" THEN raw * Whole ELSE raw * increment

\* decode_pot_bcd
DecodePotBcd(byte) ==
  LET hi == byte \div 16
      lo == byte % 16
  IN IF hi > 9 \/ lo > 9 \/ hi * 10 + lo = 0 THEN Nothing ELSE Just(hi * 10 + lo)

\* _read_active_tools, read_commanded_t: zero means no tool.
DecodeTool(word) == IF word > 0 THEN Just(word) ELSE Nothing

Power10(n) == <<1, 10, 100, 1000, 10000>>[n + 1]

\* decode_macro: mantissa and decimal places, none when vacant.
DecodeMacro(m) ==
  IF m.dec < 0 THEN Nothing ELSE Just((m.mcr * Whole) \div Power10(m.dec))

ModeOf(aut) ==
  CASE aut = 0 -> "mdi" [] aut = 1 -> "mem" [] aut = 3 -> "edit"
    [] aut = 4 -> "hnd" [] aut = 5 -> "jog" [] aut = 9 -> "ref"
    [] OTHER -> "unknown"

\* (Variant: a held program does not count as running.)
DecodeStatusStrt(s) ==
  [mode |-> IF s.aut = 1 /\ s.run = 3 THEN "auto" ELSE ModeOf(s.aut),
   running |-> s.run = 3, emergency |-> s.emergency]

\* decode_status
DecodeStatus(s) ==
  [mode |-> IF s.aut = 1 /\ s.run >= 2 THEN "auto" ELSE ModeOf(s.aut),
   running |-> s.run >= 2, emergency |-> s.emergency]

\* (Variant: trusted whatever it names.)
ParseCommentAny(text, o) == Just(text.name)

\* parse_program_comment: trusted only if the text names the same program.
ParseComment(text, o) == IF text.o = o THEN Just(text.name) ELSE Nothing
=============================================================================
