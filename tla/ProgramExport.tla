--------------------------- MODULE ProgramExport -----------------------------
(***************************************************************************)
(* One request to export a program (program_export.fetch_program): a       *)
(* connection of its own, the number of the program if none was asked for, *)
(* and the upload of programs.read_program_text, call by call.             *)
(*                                                                         *)
(* A program is a sequence of characters, of which only "%" and the line   *)
(* end "n" matter; the control sends it in pieces as long as it likes.     *)
(***************************************************************************)
EXTENDS ControlReads

CONSTANTS
  Programs,        (* the text of each program, by its number              *)
  ChunkBytes,      (* _CHUNK_BYTES                                         *)
  MaxBytes,        (* _MAX_BYTES                                           *)
  MaxCalls,        (* _MAX_CALLS                                           *)
  MaxEmptyStreak   (* _MAX_EMPTY_STREAK                                    *)

\* A program begins with a mark on a line of its own, has text, and ends with a
\* second mark, perhaps at a line end.
IsProgram(p) ==
  /\ p \in Seq(STRING) /\ Len(p) >= 3 /\ p[1] = "%" /\ p[2] = "n" /\ p[3] # "n"
  /\ \E m \in 3..Len(p) : \A i \in 2..Len(p) : p[i] = "%" <=> i = m

\* A control executes one of its programs, or none.
ASSUME ProgramExportAssumption ==
  /\ ChunkBytes \in Nat /\ MaxBytes \in Nat
  /\ MaxCalls \in Nat \ {0} /\ MaxEmptyStreak \in Nat
  /\ DOMAIN Programs \subseteq Nat \ {0}
  /\ \A o \in DOMAIN Programs : IsProgram(Programs[o])
  /\ "export" \in Profiles =>
       /\ Contents["export"][<<"program", 0>>] \in {0} \cup DOMAIN Programs
       /\ \A change \in Changes["export"] : change[2] \in {0} \cup DOMAIN Programs

VARIABLES
  uploading,   (* the control is in upload mode                            *)
  sent,        (* how much of the program it has sent                      *)
  text,        (* what read_program_text has received                      *)
  calls, streak,  (* of cnc_upload3; in a row without data                 *)
  failed,      (* an exception is on its way out                           *)
  wanted,      (* the program that is uploaded                             *)
  unended      (* history: cnc_upend3 was called and rejected              *)

uploadVars == <<uploading, sent, text, calls, streak, failed, wanted, unended>>
exportVars == <<readVars, uploadVars>>

ExportInit ==
  /\ ReadInit
  /\ uploading = FALSE /\ sent = 0 /\ text = <<>> /\ calls = 0 /\ streak = 0
  /\ failed = FALSE /\ wanted = 0 /\ unended = FALSE

\* What an exporting step leaves alone.
Apart == UNCHANGED <<mirror, worldVars, held, answered, relaid>>

\* The rest of the request; an exception goes to where the request is cleaned up.
Then(todos) == todo' = todos /\ failed' = failed
Throw(todos) == todo' = todos /\ failed' = TRUE
Call1(fn) == <<Call(fn, wanted, 0)>>

-----------------------------------------------------------------------------

\* With no number, that of the program under execution (read_program_info).
BeginExport ==
  /\ profile = "export" /\ handle \notin {"none", "raw"} /\ outcome = "none"
  /\ outcome' = "sweeping" /\ snap' = Empty
  /\ \/ todo' = <<Call("exeprgname", 0, 0), Call("resolve", 0, 0)>> /\ wanted' = 0
     \/ \E o \in DOMAIN Programs :
          todo' = <<Call("upstart3", o, 0)>> /\ wanted' = o
  /\ held' = [k \in Keys |-> {control[k]}]
  /\ disturbed' = (link # "up" \/ handle = "forgotten") /\ answered' = Works
  /\ failed' = FALSE
  /\ sent' = 0 /\ text' = <<>> /\ calls' = 0 /\ streak' = 0
  /\ UNCHANGED <<clientVars, mirror, worldVars, events, relaid, uploading,
                 unended>>

Resolve ==
  /\ Due("resolve")
  /\ LET number == snap[<<"program", 0>>]
     IN IF number = Nothing
        THEN Throw(<<Call("close", 0, 0)>>) /\ wanted' = 0
        ELSE Then(<<Call("upstart3", number[1], 0)>>) /\ wanted' = number[1]
  /\ Apart
  /\ UNCHANGED <<clientVars, snap, outcome, events, disturbed, uploading, sent,
                 text, calls, streak, unended>>

StartUpload ==
  /\ Due("upstart3")
  /\ \/ Served /\ Then(Call1("upload3")) /\ uploading' = TRUE
     \/ Rejected(Head(todo)) /\ Throw(Call1("close")) /\ UNCHANGED uploading
  /\ Apart
  /\ UNCHANGED <<clientVars, snap, outcome, sent, text, calls, streak, wanted,
                 unended>>

\* (Variant: the first mark already ends the text.)
EndsTextAny(got, total) ==
  \E i \in DOMAIN got : got[i] = "%" /\ \A j \in i + 1..Len(got) : got[j] = "n"

\* The piece ends with a mark, but for line ends, and is not the first byte.
EndsText(got, total) == total > 1 /\ EndsTextAny(got, total)

\* The loop ends with its last call.  (Variant: one call later.)
LastCallLate == calls' = MaxCalls + 1
LastCall == calls' = MaxCalls

\* After the upload, whether it ended or failed: the `finally` of
\* read_program_text.  (Variant: the mode is left as it is.)
CleanupSkipped == Call1("close")
Cleanup == Call1("upend3")

\* EW_BUFFER, no data yet: tried again, but not for ever.
\* (Variant: for ever.)
NoDataForever ==
  /\ Served /\ Then(Call1("upload3"))
  /\ streak' = (streak + 1) % (MaxEmptyStreak + 1)
  /\ UNCHANGED <<calls, sent, text>>

NoData ==
  /\ Served /\ streak' = streak + 1 /\ calls' = calls + 1
  /\ UNCHANGED <<sent, text>>
  /\ IF streak' > MaxEmptyStreak \/ LastCall
     THEN Throw(Cleanup) ELSE Then(Call1("upload3"))

\* cnc_upload3: no data, a piece of the program, or an error.
UploadChunk ==
  /\ Due("upload3")
  /\ LET rest == SubSeq(Programs[wanted], sent + 1, Len(Programs[wanted]))
     IN \/ NoData
        \/ /\ Served /\ streak' = 0 /\ calls' = calls + 1
           /\ \E n \in 1..ChunkBytes :
                /\ n <= Len(rest)
                /\ sent' = sent + n
                /\ text' = text \o SubSeq(rest, 1, n)
                /\ IF Len(text') > MaxBytes THEN Throw(Cleanup)
                   ELSE IF EndsText(SubSeq(rest, 1, n), Len(text'))
                        THEN Then(Cleanup)
                   ELSE IF LastCall THEN Throw(Cleanup)
                   ELSE Then(Call1("upload3"))
        \/ /\ Rejected(Head(todo)) /\ streak' = 0 /\ calls' = calls + 1
           /\ Throw(Cleanup) /\ UNCHANGED <<sent, text>>
  /\ Apart
  /\ UNCHANGED <<clientVars, snap, outcome, uploading, wanted, unended>>

\* cnc_upend3, always and without a look at its answer.
EndUpload ==
  /\ Due("upend3")
  /\ \/ Served /\ uploading' = FALSE /\ unended' = FALSE
     \/ Rejected(Head(todo)) /\ UNCHANGED uploading /\ unended' = TRUE
  /\ Then(Call1("close"))
  /\ Apart
  /\ UNCHANGED <<clientVars, snap, outcome, sent, text, calls, streak, wanted>>

\* The client is closed whatever happened.
CloseExport ==
  /\ Due("close")
  /\ handle' = "none" /\ open' = open - 1 /\ todo' = <<>>
  /\ outcome' = IF failed THEN "raised" ELSE "ok"
  /\ Apart /\ UNCHANGED <<cache, snap, events, disturbed, uploadVars>>

Export ==
  \/ BeginExport \/ Resolve \/ StartUpload \/ UploadChunk \/ EndUpload
  \/ CloseExport

\* A request holds its client from connect to close.
ExportNext ==
  \/ Export
  \/ ReadNext /\ UNCHANGED uploadVars

-----------------------------------------------------------------------------
UploadTypeOK ==
  /\ uploading \in BOOLEAN /\ failed \in BOOLEAN /\ unended \in BOOLEAN
  /\ wanted \in {0} \cup DOMAIN Programs
  /\ (wanted # 0 => text = SubSeq(Programs[wanted], 1, sent))
  /\ calls \in 0..MaxCalls /\ streak \in 0..(MaxEmptyStreak + 1)

\* A program that is exported is complete up to its closing mark, or it is the
\* opening mark alone: a piece that is just "%" and a line end also ends the
\* upload.
UploadIsWhole ==
  (profile = "export" /\ outcome = "ok") =>
    \/ Cardinality({i \in DOMAIN text : text[i] = "%"}) = 2
    \/ text = <<"%", "n">>

\* Once the request has let go of the control it is out of upload mode, unless
\* it rejected being told so.
UploadModeIsLeft == (uploading /\ handle = "none") => unended

\* Every sweep and every export comes to an end, though the control may put
\* off its answer again and again.
SweepsEnd == (outcome = "sweeping") ~> (outcome # "sweeping")
=============================================================================
