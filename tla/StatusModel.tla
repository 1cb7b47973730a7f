---------------------------- MODULE StatusModel ----------------------------
(***************************************************************************)
(* The status model of the client (models.py): every validated frame is    *)
(* folded into the latest copy of each top-level group and into            *)
(* observations that only accumulate, and a snapshot is built from both.   *)
(* One model lives as long as its client: a reconnection does not touch    *)
(* it, so that it has no action here.                                      *)
(*                                                                         *)
(* A mode code and the group it selects (H and HGOM, C and CGOM, ...) are  *)
(* the same value here.  A group's content is reduced to the fields the    *)
(* snapshot tells apart (a name of None shows as the default name, a       *)
(* reading stands for the sensed and option subgroups of a zone).  Flags   *)
(* are "Y", "N", "-" (absent) or something else, and an Opaque value is    *)
(* one that is not a JSON object.                                          *)
(***************************************************************************)
EXTENDS Integers, Sequences, SequencesExt

CONSTANTS Modes,        \* the mode codes that select a mode group
          Zones,        \* the zone letters
          Flagged,      \* the capabilities: heater, cooler, multi-setpoint, ...
          Unit,         \* the label that is no zone's name: the temperature unit
          Blank,        \* a label of white space only
          Opaque,       \* a group value that is not an object
          Absent,       \* a zone without sensed and option subgroups
          None,
          Frames,       \* the frames the parser may deliver
          MaxItems      \* bound of the runs: items of the frames applied

\* The definitions named ...Slip are mutations of the definition after them, the
\* kind of mistake a change to the code could make; the specification uses none.

System == "SYST"
Groups == Modes \cup {System, "unknown"}

ASSUME PayloadsAreLists == \A frame \in Frames : frame.payload \in Seq(Range(frame.payload))
ASSUME ModesAreCodes == System \notin Modes /\ None \notin Modes
ASSUME NoneIsNoStatus == None \notin Int \cup [measured : Int \cup {None}]

VARIABLES model,        \* the fields of RinnaiStatusModel
          snapshot,     \* the snapshot published last, or None
          history       \* auxiliary: the items of the frames applied, oldest first

vars == <<model, snapshot, history>>

Flag(f) == CASE f = "Y" -> TRUE [] f = "N" -> FALSE [] OTHER -> None

\* A label counts when it is a string with something in it.
Named(label) == label \notin {None, Blank}

\* A field of the latest SYST group, None when there is none to read.
Latest(st, field) ==
  IF st.groups[System] \in {None, Opaque} THEN None ELSE st.groups[System][field]

ActiveGroup(st) == IF Latest(st, "mode") \in Modes THEN Latest(st, "mode") ELSE None

----------------------------------------------------------------------------
\* Folding one item of a payload into the model.

ObserveSystem(st, system) ==
  [st EXCEPT
     !.capabilities = @ \cup {c \in Flagged : system.available[c] = "Y"},
     !.labels = [l \in DOMAIN @ |-> IF Named(system.labels[l]) THEN system.labels[l] ELSE @[l]],
     !.observed = @ \cup {z \in Zones : Named(system.labels[z])}]

\* A later N takes the installation back.
UnlatchSlip(st, group) ==
  [st EXCEPT
     !.observed = @ \cup {z \in Zones : group.installed[z] # "-" \/ group.reading[z] # Absent},
     !.installed = (@ \cup {z \in Zones : group.installed[z] = "Y"})
                     \ {z \in Zones : group.installed[z] = "N"}]

ObserveModeGroup(st, group) ==
  [st EXCEPT
     !.observed = @ \cup {z \in Zones : group.installed[z] # "-" \/ group.reading[z] # Absent},
     !.installed = @ \cup {z \in Zones : group.installed[z] = "Y"}]

ObserveGroup(st, item) ==
  CASE item.value = Opaque -> st
    [] item.value # Opaque /\ item.group = System -> ObserveSystem(st, item.value)
    [] item.value # Opaque /\ item.group \in Modes -> ObserveModeGroup(st, item.value)
    [] OTHER -> st

\* Only the group of the mode already active is observed.
ActiveOnlySlip(st, item) ==
  IF item.group \in Modes /\ item.group # ActiveGroup(st) THEN st
  ELSE ObserveGroup([st EXCEPT !.groups[item.group] = item.value], item)

Absorb(st, item) == ObserveGroup([st EXCEPT !.groups[item.group] = item.value], item)

AbsorbAll(st, payload) ==
  LET after[k \in 0 .. Len(payload)] ==
        IF k = 0 THEN st ELSE Absorb(after[k - 1], payload[k])
  IN  after[Len(payload)]

----------------------------------------------------------------------------
\* Building the snapshot.

Sentinel == 999

\* The sentinel passes for a reading.
SentinelSlip(raw) == IF raw \in Int THEN raw ELSE None

\* Tenths of a degree, or None for no reading: the sentinel or not a number.
Measured(raw) == IF raw \in Int /\ raw # Sentinel THEN raw ELSE None

ZoneStatus(st, z) ==
  LET active == ActiveGroup(st) IN
  IF active = None THEN None
  ELSE IF st.groups[active] \in {None, Opaque} THEN None
  ELSE IF st.groups[active].reading[z] \in {Absent, Opaque} THEN None
  ELSE [measured |-> Measured(st.groups[active].reading[z])]

Snapshot(st, sequence) ==
  [sequence     |-> sequence,
   groups       |-> st.groups,
   capabilities |-> st.capabilities,
   unit         |-> st.labels[Unit],
   zones        |-> [z \in st.observed |-> [name      |-> st.labels[z],
                                            installed |-> z \in st.installed,
                                            current   |-> ZoneStatus(st, z)]],
   mode         |-> Latest(st, "mode"),
   active       |-> ActiveGroup(st),
   fault        |-> Flag(Latest(st, "fault"))]

----------------------------------------------------------------------------
Empty == [groups       |-> [g \in Groups |-> None],
          capabilities |-> {},
          labels       |-> [l \in Zones \cup {Unit} |-> None],
          observed     |-> {},
          installed    |-> {}]

Init == model = Empty /\ snapshot = None /\ history = <<>>

\* apply(): the whole frame is folded in before the snapshot is built.
Apply(frame) ==
  /\ Len(history) + Len(frame.payload) <= MaxItems
  /\ model' = AbsorbAll(model, frame.payload)
  /\ snapshot' = Snapshot(model', frame.sequence)
  /\ history' = history \o frame.payload

Next == \E frame \in Frames : Apply(frame)

Spec == Init /\ [][Next]_vars

----------------------------------------------------------------------------
\* What a sequence of items says, whatever folds it.

Of(items, g) == {i \in DOMAIN items : items[i].group = g}
Objects(items, g) == {i \in Of(items, g) : items[i].value # Opaque}
ModeObjects(items) == {i \in DOMAIN items : items[i].group \in Modes /\ items[i].value # Opaque}
Naming(items, l) == {i \in Objects(items, System) : Named(items[i].value.labels[l])}

\* The last copy of group g, and the last name for label l.
LastOf(items, g, otherwise) ==
  IF Of(items, g) = {} THEN otherwise ELSE items[Max(Of(items, g))].value
LastLabel(items, l, otherwise) ==
  IF Naming(items, l) = {} THEN otherwise ELSE items[Max(Naming(items, l))].value.labels[l]

\* A capability shown once as Y, a zone once named, flagged or reported, a zone
\* installed by one explicit Y in any mode's group.
Shown(items) ==
  {c \in Flagged : \E i \in Objects(items, System) : items[i].value.available[c] = "Y"}
Observed(items) ==
  {z \in Zones : \/ Naming(items, z) # {}
                 \/ \E i \in ModeObjects(items) : \/ items[i].value.installed[z] # "-"
                                                  \/ items[i].value.reading[z] # Absent}
Installed(items) ==
  {z \in Zones : \E i \in ModeObjects(items) : items[i].value.installed[z] = "Y"}

\* The state st and what the items say.
Said(st, items) ==
  [groups       |-> [g \in Groups |-> LastOf(items, g, st.groups[g])],
   capabilities |-> st.capabilities \cup Shown(items),
   labels       |-> [l \in Zones \cup {Unit} |-> LastLabel(items, l, st.labels[l])],
   observed     |-> st.observed \cup Observed(items),
   installed    |-> st.installed \cup Installed(items)]

(* A type invariant of the fields of RinnaiStatusModel and of its snapshot. *)
TypeOK ==
  /\ DOMAIN model.groups = Groups
  /\ model.capabilities \subseteq Flagged
  /\ DOMAIN model.labels = Zones \cup {Unit}
  /\ model.installed \subseteq model.observed /\ model.observed \subseteq Zones
  /\ snapshot # None => DOMAIN snapshot.zones = model.observed

(* The model is what the items of its life say, and the snapshot shows it. *)
(* (The invariant the theorems rest on.)                                   *)
ModelInv ==
  /\ history \in Seq(Range(history))
  /\ model = Said(Empty, history)
  /\ snapshot # None => snapshot = Snapshot(model, snapshot.sequence)

(* Observations are exactly what the frames ever said: whatever came       *)
(* after, in whatever order, and whichever mode was active; and a name is  *)
(* the last one that was not blank.                                        *)
ObservationsAddUp ==
  snapshot # None =>
    /\ snapshot.capabilities = Shown(history)
    /\ DOMAIN snapshot.zones = Observed(history)
    /\ \A z \in DOMAIN snapshot.zones :
         /\ snapshot.zones[z].installed = (z \in Installed(history))
         /\ snapshot.zones[z].name = LastLabel(history, z, None)
    /\ snapshot.unit = LastLabel(history, Unit, None)

(* A reading shown for a zone is a number the module sent for that zone in *)
(* the latest copy of the group of the mode that the latest SYST names;    *)
(* nothing is shown from another mode, and never the no-reading sentinel.  *)
ReadingIsOfTheActiveMode ==
  snapshot # None =>
    \A z \in DOMAIN snapshot.zones :
      LET status == snapshot.zones[z].current
          system == LastOf(history, System, None)
          named  == IF system \in {None, Opaque} THEN None ELSE system.mode
          latest == IF named \in Modes THEN LastOf(history, named, None) ELSE None IN
      /\ status # None =>
           latest \notin {None, Opaque} /\ status.measured \in {None, latest.reading[z]}
      /\ status = None => latest \in {None, Opaque} \/ latest.reading[z] \in {Absent, Opaque}
      /\ status # None => status.measured # Sentinel

(* The order in which one frame lists different groups makes no difference *)
(* to what is published: SYST after the mode group it selects is as good   *)
(* as SYST before it.                                                      *)
Distinct(payload) ==
  \A i, j \in DOMAIN payload : i # j => payload[i].group # payload[j].group
OrderIsIrrelevant ==
  [][\A frame \in Frames : Apply(frame) /\ Distinct(frame.payload) =>
       snapshot' = Snapshot(AbsorbAll(model, Reverse(frame.payload)), frame.sequence)]_vars

=============================================================================
