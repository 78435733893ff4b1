---------------------------- MODULE ControlReads -----------------------------
(***************************************************************************)
(* What one sweep of a control does with the FOCAS library: the connection *)
(* of shared/focas/client.py, the mill's sweep (client.py,                 *)
(* client_reads.py) and the lathe's (lathe.py), call by call.  Between two *)
(* calls the control may change, and any call may be rejected.             *)
(*                                                                         *)
(* A datum of the control has a key <<what, number>>; `control` holds the  *)
(* raw words, `snap` and `mirror` what pottracker made of them.  `todo` is *)
(* the rest of the sweep, a sequence of calls.                             *)
(***************************************************************************)
EXTENDS Decoders, Dictionaries, Functions

CONSTANTS
  Profiles,     (* of "mill", "lathe" and "export", a client that only     *)
                (* exports programs                                        *)
  PotCount,     (* client._pot_count                                       *)
  MacroVars,    (* _SKIP_MACRO_VARS                                        *)
  LifeGroups,   (* tool life management: the tools of each group           *)
  ZofsSlots,    (* _ZOFS_SLOTS                                             *)
  Increment,    (* what a count is worth, in units of 0.0001               *)
  Contents,     (* of each profile, the words of its control to begin with *)
  Changes,      (* of each, <<key, word>>: what may be changed to what     *)
  Layouts,      (* layouts of the offset table, the first one current      *)
  MaxEvents     (* bound on changes of the control, calls rejected for no  *)
                (* visible reason, and failures of the link                *)

\* The data of a control with n offset registers.
DataOf(p, n) ==
  CASE p = "mill" ->
         ({"status", "head", "next"} \X {0}) \cup ({"pot"} \X (1..PotCount))
           \cup ({"macro"} \X Range(MacroVars))
           \cup ({"h_geom", "h_wear", "d_geom", "d_wear"} \X (1..n))
    [] p = "lathe" ->
         ({"status", "program", "wcs", "tword", "shift"} \X {0})
           \cup ({"zofs"} \X Range(ZofsSlots))
           \cup ({"x_wear", "x_geom", "z_wear", "z_geom", "r_wear", "r_geom", "tip"} \X (1..n))
    [] p = "export" -> {<<"program", 0>>}

\* The words of a datum.  A macro variable has at most the four decimal places
\* that the lengths of the model have.
IsWord(what, word) ==
  CASE what = "status" -> word \in [aut : Nat, run : Nat, emergency : BOOLEAN]
    [] what = "pot" -> word \in 0..255
    [] what \in {"head", "next", "tword", "program"} -> word \in Nat
    [] what = "macro" -> word.mcr \in Int /\ word.dec \in Int /\ word.dec <= 4
    [] what = "wcs" -> TRUE
    [] OTHER -> word \in Int

\* A register number has at most four digits: beyond, the P of an offset program
\* would be that of the geometry of another register.
RegisterLimit == 9999

ASSUME ControlReadsAssumption ==
  /\ Profiles \subseteq {"mill", "lathe", "export"}
  /\ PotCount \in Nat /\ MaxEvents \in Nat /\ Increment \in Nat \ {0}
  /\ MacroVars \in Seq(Nat) /\ ZofsSlots \in Seq(Nat) /\ LifeGroups \in Seq(Seq(Nat))
  /\ Layouts \in Seq([type : 1..3, use : Nat]) /\ Layouts # <<>>
  /\ \A p \in Profiles :
       /\ \E n \in 1..RegisterLimit :
            /\ DOMAIN Contents[p] = DataOf(p, n)
            /\ \A i \in DOMAIN Layouts : Layouts[i].use <= n
       /\ \A k \in DOMAIN Contents[p] : IsWord(k[1], Contents[p][k])
       /\ \A change \in Changes[p] :
            change[1] \in DOMAIN Contents[p] /\ IsWord(change[1][1], change[2])

VARIABLES
  profile,   (* the profile of the machine, which does not change          *)
  link,      (* the control answers, or does not                           *)
  control, layout,  (* its data, and the layout of its offset table        *)
  handle,    (* the client's handle: none, raw, primed or forgotten by the *)
             (* control (or, in a variant, used unprimed)                  *)
  open,      (* handles the library has given out                          *)
  cache,     (* _ofs_type, _offset_use_no                                  *)
  todo, snap, outcome, (* the sweep: what is left, what was read, its end  *)
  mirror,    (* what snapshots told, the last value of each key            *)
  events,    (* of these, so far                                           *)
  held,      (* history: the words each key has had during this sweep      *)
  disturbed, answered, (* history: a call of this sweep could be rejected, *)
                       (* could be accepted                                *)
  relaid     (* history: the layout changed since it was cached            *)

clientVars == <<handle, open, cache>>
sweepVars  == <<todo, snap, outcome>>
worldVars  == <<profile, link, control, layout>>
histVars   == <<held, disturbed, answered, relaid>>
readVars == <<clientVars, sweepVars, mirror, worldVars, events, histVars>>

Keys == DOMAIN Contents[profile]
Works == link = "up" /\ handle = "primed"

ReadInit ==
  /\ profile \in Profiles
  /\ link = "up" /\ control = Contents[profile] /\ layout = Layouts[1]
  /\ handle = "none" /\ open = 0 /\ cache = Nothing
  /\ todo = <<>> /\ snap = Empty /\ outcome = "none" /\ mirror = Empty
  /\ events = 0
  /\ held = [k \in Keys |-> {}]
  /\ disturbed = FALSE /\ answered = FALSE /\ relaid = FALSE

-----------------------------------------------------------------------------
(* The control.                                                            *)

\* The bank a type code stands for at the panel, and the word of a register.
PanelBank(code) ==
  IF profile = "lathe"
  THEN <<"x_wear", "x_geom", "z_wear", "z_geom", "r_wear", "r_geom", "tip", "tip">>[code + 1]
  ELSE CASE layout.type = 1 -> "h_geom"
         [] layout.type = 2 -> <<"d_wear", "d_geom", "h_wear", "h_geom">>[code + 1]
         [] layout.type = 3 -> <<"h_geom", "h_wear", "d_geom", "d_wear">>[code]

PanelCodes ==
  IF profile = "lathe" THEN 0..7
  ELSE CASE layout.type = 1 -> {1} [] layout.type = 2 -> 0..3 [] OTHER -> 1..4

\* What the panel shows for a word.
Shown(key, word) ==
  CASE key[1] = "tip" -> word * Whole
    [] key[1] \in {"h_geom", "h_wear", "d_geom", "d_wear", "x_geom", "x_wear",
                   "z_geom", "z_wear", "r_geom", "r_wear", "zofs", "shift"} ->
         word * Increment
    [] key[1] = "pot" ->
         IF \E t \in 1..99 : word = 16 * (t \div 10) + (t % 10)
         THEN Just(CHOOSE t \in 1..99 : word = 16 * (t \div 10) + (t % 10))
         ELSE Nothing
    [] key[1] \in {"head", "next", "tword", "program"} ->
         IF word = 0 THEN Nothing ELSE Just(word)
    [] key[1] = "macro" ->
         IF word.dec < 0 THEN Nothing
         ELSE Just(word.mcr * Power10(4 - word.dec))
    [] OTHER -> Just(word)

Happens == events < MaxEvents /\ events' = events + 1

Edit ==
  /\ Happens
  /\ \E change \in Changes[profile] :
       /\ control[change[1]] # change[2]
       /\ control' = [control EXCEPT ![change[1]] = change[2]]
       /\ held' = [held EXCEPT ![change[1]] = @ \cup {change[2]}]
  /\ UNCHANGED <<profile, link, layout, clientVars, sweepVars, mirror,
                 disturbed, answered, relaid>>

Reconfigure ==
  /\ Happens
  /\ \E i \in 2..Len(Layouts) : layout # Layouts[i] /\ layout' = Layouts[i]
  /\ relaid' = TRUE
  /\ UNCHANGED <<profile, link, control, clientVars, sweepVars, mirror,
                 held, disturbed, answered>>

\* The network goes and comes; a control that was off has forgotten handles.
LinkChanges ==
  /\ \/ link = "up" /\ Happens /\ link' = "down"
     \/ link = "down" /\ UNCHANGED events /\ link' = "up"
  /\ handle' \in IF handle = "none" \/ link = "up" THEN {handle}
                 ELSE {handle, "forgotten"}
  /\ disturbed' = (disturbed \/ link' = "down" \/ handle' = "forgotten")
  /\ answered' = (answered \/ (link' = "up" /\ handle' = "primed"))
  /\ UNCHANGED <<profile, control, layout, open, cache, sweepVars, mirror,
                 held, relaid>>

-----------------------------------------------------------------------------
(* Calls.  A call is accepted if the control serves it, and rejected if it *)
(* does not, or now and then for no visible reason.                        *)

Call(fn, a, b) == [fn |-> fn, a |-> a, b |-> b]

Serves(call) ==
  \/ call.fn = "sysinfo"
  \/ /\ handle = "primed"
     /\ (call.fn = "rdtofs" => call.a <= layout.use /\ call.b \in PanelCodes)

Accepted(call) == link = "up" /\ handle # "forgotten" /\ Serves(call)

Rejected(call) ==
  IF Accepted(call)
  THEN /\ Happens
       /\ disturbed' = TRUE
  ELSE UNCHANGED <<events, disturbed>>

-----------------------------------------------------------------------------
(* The connection.                                                         *)

\* cnc_allclibhndl3, and cnc_settimeout, whose failure is ignored.
AllocateHandle ==
  /\ handle = "none" /\ link = "up"
  /\ handle' = "raw" /\ open' = open + 1 /\ cache' = Nothing
  /\ outcome' = "none"
  /\ UNCHANGED <<todo, snap, mirror, worldVars, events, held, disturbed,
                 answered, relaid>>

\* (Variant: the handle is used unprimed.)
PrimeNever ==
  /\ handle = "raw" /\ handle' = "unprimed"
  /\ UNCHANGED <<open, cache, sweepVars, mirror, worldVars, events, histVars>>

\* The cnc_sysinfo that a fresh handle must serve before anything else.
Prime ==
  /\ handle = "raw" /\ Accepted(Call("sysinfo", 0, 0))
  /\ handle' = "primed"
  /\ UNCHANGED <<open, cache, sweepVars, mirror, worldVars, events, histVars>>

\* (Variant: the handle is not given back.)
PrimeFailsOpen ==
  /\ handle = "raw" /\ Rejected(Call("sysinfo", 0, 0))
  /\ handle' = "none"
  /\ UNCHANGED <<open, cache, sweepVars, mirror, worldVars, held, answered,
                 relaid>>

PrimeFails ==
  /\ handle = "raw" /\ Rejected(Call("sysinfo", 0, 0))
  /\ handle' = "none" /\ open' = open - 1
  /\ UNCHANGED <<cache, sweepVars, mirror, worldVars, held, answered, relaid>>

\* close(), which the owner of the client may call between two sweeps.
Close ==
  /\ profile # "export" /\ handle \notin {"none", "raw"} /\ outcome # "sweeping"
  /\ handle' = "none" /\ open' = open - 1
  /\ UNCHANGED <<cache, sweepVars, mirror, worldVars, events, histVars>>

-----------------------------------------------------------------------------
(* The plan of a sweep.                                                    *)

\* (Variant: the last register is left out.)
OffsetCallsShort(types, use) ==
  LET codes == Ascending(DOMAIN types)
      n == Len(codes)
  IN [i \in 1..((use - 1) * n) |->
        Call("rdtofs", ((i - 1) \div n) + 1, codes[((i - 1) % n) + 1])]

\* Every register, and of each every bank that the table of its type names.
OffsetCalls(types, use) ==
  LET codes == Ascending(DOMAIN types)
      n == Len(codes)
  IN [i \in 1..(use * n) |->
        Call("rdtofs", ((i - 1) \div n) + 1, codes[((i - 1) % n) + 1])]

BanksOf(type) == IF profile = "lathe" THEN LatheTypeMap ELSE OfsTypeDispatch(type)

AfterLayout(l) == OffsetCalls(BanksOf(l.type), l.use)

MillPlan ==
  <<Call("statinfo", 0, 0), Call("pmc", "head", 327), Call("pmc", "next", 325)>>
    \o (IF cache = Nothing THEN <<Call("rdtofsinfo", 0, 0)>>
        ELSE AfterLayout(cache[1]))
    \o [i \in 1..PotCount |-> Call("pmc", "pot", 104 + i)]
    \o <<Call("rdngrp", 0, 0), Call("rdalmmsg2", 0, 0)>>
    \o [i \in 1..Len(MacroVars) |-> Call("rdmacro", MacroVars[i], 10)]

\* The fast tier of a lathe.
LatheStatusPlan ==
  <<Call("statinfo", 0, 0), Call("exeprgname", 0, 0), Call("rdgcode", 13, 0),
    Call("rdcommand", 0, 0)>>

\* The layout is read in every sweep of a lathe.
LathePlan ==
  LatheStatusPlan \o <<Call("rdtofsinfo", 0, 0)>>
    \o [i \in 1..Len(ZofsSlots) |-> Call("rdzofs", ZofsSlots[i], 0)]
    \o <<Call("rdwkcdshft", 0, 0)>>

Begin(plan) ==
  /\ handle \notin {"none", "raw"} /\ outcome # "sweeping"
  /\ outcome' = "sweeping" /\ snap' = Empty /\ todo' = plan
  /\ held' = [k \in Keys |-> {control[k]}]
  /\ disturbed' = (link # "up" \/ handle = "forgotten")
  /\ answered' = Works
  /\ UNCHANGED <<clientVars, mirror, worldVars, events, relaid>>

\* read_snapshot of either profile, and the lathe's read_status_snapshot.
BeginSweep ==
  \/ profile = "mill" /\ Begin(MillPlan)
  \/ profile = "lathe" /\ Begin(LathePlan)
  \/ profile = "lathe" /\ Begin(LatheStatusPlan)

\* The call that is due; what follows it.
Due(fn) == outcome = "sweeping" /\ todo # <<>> /\ Head(todo).fn = fn

Observe(key, value) == snap' = With(snap, key, value)

GoOn(calls) ==
  /\ todo' = calls
  /\ UNCHANGED <<outcome, clientVars, mirror, worldVars, held, answered, relaid>>

\* An answer read, a rejection logged and passed over, a rejection raised.
Served == Accepted(Head(todo)) /\ UNCHANGED <<events, disturbed>>

PassOver == Rejected(Head(todo)) /\ UNCHANGED snap /\ GoOn(Tail(todo))

\* (Variant: nothing is ever raised.)
RaiseNever == PassOver

Raise ==
  /\ Rejected(Head(todo))
  /\ outcome' = "raised" /\ todo' = <<>> /\ snap' = Empty
  /\ UNCHANGED <<clientVars, mirror, worldVars, held, answered, relaid>>

-----------------------------------------------------------------------------
(* The reads of both profiles.                                             *)

ReadStatus ==
  /\ Due("statinfo")
  /\ \/ /\ Served /\ Observe(<<"status", 0>>, DecodeStatus(control[<<"status", 0>>]))
        /\ GoOn(Tail(todo))
     \/ Raise

\* The layout is kept until the client is closed.
ReadLayout ==
  /\ Due("rdtofsinfo")
  /\ \/ /\ Served
        /\ cache' = Just(layout) /\ relaid' = FALSE
        /\ todo' = AfterLayout(layout) \o Tail(todo)
        /\ UNCHANGED <<snap, outcome, handle, open, mirror, worldVars, held,
                       answered>>
     \/ Raise

\* A value outside the envelope is refused by the model, which is no
\* FocasError.
ReadOffset ==
  /\ Due("rdtofs")
  /\ LET call == Head(todo)
         bank == BanksOf(cache[1].type)[call.b]
         word == control[<<PanelBank(call.b), call.a>>]
         value == DecodeOffset(bank, word, Increment)
     IN \/ /\ Served
           /\ IF InEnvelope(value)
              THEN Observe(<<bank, call.a>>, value) /\ GoOn(Tail(todo))
              ELSE /\ outcome' = "crashed" /\ todo' = <<>> /\ snap' = Empty
                   /\ UNCHANGED <<clientVars, mirror, worldVars, held, answered,
                                  relaid>>
        \/ PassOver

-----------------------------------------------------------------------------
(* The mill's.                                                             *)

\* A byte of the PMC: the tool in the spindle and the next, which are no tool
\* if they cannot be read, and the pots, which are passed over.
ReadPmcByte ==
  /\ Due("pmc")
  /\ LET call == Head(todo)
         pot == call.b - 104
     IN CASE call.a = "pot" ->
               \/ /\ Served
                  /\ Observe(<<"pot", pot>>, DecodePotBcd(control[<<"pot", pot>>]))
                  /\ GoOn(Tail(todo))
               \/ PassOver
          [] OTHER ->
               /\ \/ Served /\ Observe(<<call.a, 0>>, DecodeTool(control[<<call.a, 0>>]))
                  \/ Rejected(call) /\ Observe(<<call.a, 0>>, Nothing)
               /\ GoOn(Tail(todo))

\* The number of groups; without it there is no tool life management.
ReadLifeGroups ==
  /\ Due("rdngrp")
  /\ \/ /\ Served /\ UNCHANGED snap
        /\ GoOn([g \in 1..Len(LifeGroups) |-> Call("rdgrpid", g, 0)] \o Tail(todo))
     \/ PassOver

ReadLifeGroup ==
  /\ Due("rdgrpid")
  /\ LET g == Head(todo).a
     IN \/ /\ Served /\ UNCHANGED snap
           /\ GoOn(<<Call("rd1tlifedata", g, 1)>> \o Tail(todo))
        \/ PassOver

\* The tools of a group slot by slot, up to the first that fails or is empty.
ReadLifeSlot ==
  /\ Due("rd1tlifedata")
  /\ LET g == Head(todo).a
         slot == Head(todo).b
     IN \/ /\ Served
           /\ IF slot <= Len(LifeGroups[g])
              THEN /\ Observe(<<"life", LifeGroups[g][slot]>>, Just("live"))
                   /\ GoOn(<<Call("rd1tlifedata", g, slot + 1)>> \o Tail(todo))
              ELSE UNCHANGED snap /\ GoOn(Tail(todo))
        \/ PassOver

ReadAlarms ==
  /\ Due("rdalmmsg2")
  /\ \/ Served /\ UNCHANGED snap /\ GoOn(Tail(todo))
     \/ Raise

\* A vacant variable is a value, a failed read is not.
ReadMacro ==
  /\ Due("rdmacro")
  /\ LET key == <<"macro", Head(todo).a>>
     IN \/ Served /\ Observe(key, DecodeMacro(control[key])) /\ GoOn(Tail(todo))
        \/ PassOver

-----------------------------------------------------------------------------
(* The lathe's.  Fields of the status that cannot be read are none.        *)

\* Two calls: the number of the program, then the text it is executing.
ReadProgramNumber ==
  /\ Due("exeprgname")
  /\ LET o == control[<<"program", 0>>]
     IN \/ /\ Served /\ Observe(<<"program", 0>>, DecodeTool(o))
           /\ GoOn(IF o > 0 THEN <<Call("rdexecprog", o, 512)>> \o Tail(todo)
                   ELSE Tail(todo))
        \/ /\ Rejected(Head(todo)) /\ Observe(<<"program", 0>>, Nothing)
           /\ GoOn(Tail(todo))

ReadProgramText ==
  /\ Due("rdexecprog")
  /\ LET o == control[<<"program", 0>>]
         text == [o |-> o, name |-> <<"part", o>>]
     IN \/ Served /\ Observe(<<"name", 0>>, ParseComment(text, Head(todo).a))
        \/ Rejected(Head(todo)) /\ Observe(<<"name", 0>>, Nothing)
  /\ GoOn(Tail(todo))

ReadStatusField(fn, key, value) ==
  /\ Due(fn)
  /\ \/ Served /\ Observe(key, value)
     \/ Rejected(Head(todo)) /\ Observe(key, Nothing)
  /\ GoOn(Tail(todo))

ReadActiveWcs ==
  ReadStatusField("rdgcode", <<"wcs", 0>>, Just(control[<<"wcs", 0>>]))

ReadCommandedT ==
  ReadStatusField("rdcommand", <<"tword", 0>>, DecodeTool(control[<<"tword", 0>>]))

\* The slots of cnc_rdzofs, and the work shift.
ReadWorkOffset ==
  /\ Due("rdzofs") \/ Due("rdwkcdshft")
  /\ LET key == IF Head(todo).fn = "rdzofs" THEN <<"zofs", Head(todo).a>>
                ELSE <<"shift", 0>>
     IN \/ Served /\ Observe(key, control[key] * Increment) /\ GoOn(Tail(todo))
        \/ PassOver

-----------------------------------------------------------------------------

\* The snapshot is complete, and replaces what it observed in the mirror.
Deliver ==
  /\ profile # "export" /\ outcome = "sweeping" /\ todo = <<>>
  /\ outcome' = "ok" /\ mirror' = Updated(mirror, snap) /\ snap' = Empty
  /\ held' = [k \in Keys |-> {}]
  /\ UNCHANGED <<clientVars, todo, worldVars, events, disturbed, answered, relaid>>

Sweep ==
  \/ BeginSweep \/ ReadStatus \/ ReadLayout \/ ReadOffset \/ Deliver
  \/ ReadPmcByte \/ ReadLifeGroups \/ ReadLifeGroup \/ ReadLifeSlot
  \/ ReadAlarms \/ ReadMacro
  \/ ReadProgramNumber \/ ReadProgramText \/ ReadActiveWcs \/ ReadCommandedT
  \/ ReadWorkOffset

Connection == AllocateHandle \/ Prime \/ PrimeFails \/ Close
World == Edit \/ Reconfigure \/ LinkChanges

ReadNext == Sweep \/ Connection \/ World

-----------------------------------------------------------------------------
ReadTypeOK ==
  /\ link \in {"up", "down"}
  /\ handle \in {"none", "raw", "unprimed", "primed", "forgotten"}
  /\ open \in 0..1
  /\ cache \in {Nothing} \cup {Just(Layouts[i]) : i \in DOMAIN Layouts}
  /\ outcome \in {"none", "sweeping", "ok", "raised", "crashed"}
  /\ (outcome # "sweeping" => todo = <<>>)
  /\ events \in 0..MaxEvents
  /\ \A k \in DOMAIN snap \ {<<"name", 0>>} : k \in Keys \/ k[1] = "life"

\* What a sweep reports of a datum is what the panel has shown for it at some
\* moment of that sweep, under that name and in that scale, unless the offset
\* table was laid out anew since the client asked for its layout.  The fields
\* of a status may also be none because they could not be read.
SnapshotIsHonest ==
  \A k \in DOMAIN snap :
    \/ k[1] \in {"status", "name", "life"}
    \/ relaid /\ k[1] \in {"h_geom", "h_wear", "d_geom", "d_wear"}
    \/ snap[k] \in {Shown(k, word) : word \in held[k]}
    \/ k[1] \in {"head", "next", "wcs", "tword", "program"} /\ snap[k] = Nothing

\* A part name belongs to the program number it is reported with, though they
\* are read by two calls and the control may go to another program in between.
NameFitsNumber ==
  LET name == <<"name", 0>>
      number == <<"program", 0>>
  IN name \in DOMAIN snap /\ snap[name] # Nothing =>
       snap[number] = Just(snap[name][1][2])

\* A sweep fails only if a call of it could fail: the link was down, the handle
\* forgotten, or the control rejected something it serves.  In particular a
\* fresh handle is usable, and no call is made that every control rejects and
\* that ends the sweep.
FailuresHaveCauses ==
  (profile # "export" /\ outcome = "raised") => disturbed

\* A control that answered nothing from the beginning of a sweep to its end
\* is never reported as read, though most reads pass over a rejection.
OutagesAreNoticed == outcome = "ok" => answered

\* The data that the panel has: of the offsets those of its present layout.
IsOffset(k) == k[1] \in {"h_geom", "h_wear", "d_geom", "d_wear", "x_geom", "x_wear",
                         "z_geom", "z_wear", "r_geom", "r_wear", "tip"}

OnPanel ==
  {k \in Keys : IsOffset(k) =>
     k[2] <= layout.use /\ \E code \in PanelCodes : PanelBank(code) = k[1]}

StatusKeys == {"status", "program", "wcs", "tword"} \X {0}

\* A sweep that nothing disturbed and that knows the layout of the table leaves
\* nothing out, though its list of calls is made of counts, codes and layouts
\* that the control has named: it tells all that the panel has, or, as the fast
\* tier of a lathe, all of the status and nothing else.
SweepsAreComplete ==
  (profile # "export" /\ outcome = "sweeping" /\ todo = <<>> /\ ~disturbed /\ ~relaid) =>
    \/ OnPanel \subseteq DOMAIN snap
    \/ /\ profile = "lathe" /\ StatusKeys \subseteq DOMAIN snap
       /\ DOMAIN snap \subseteq StatusKeys \cup {<<"name", 0>>}

\* The library has given out just the handles that a client holds.
HandlesAreReturned == open = IF handle = "none" THEN 0 ELSE 1
=============================================================================
